---- MODULE Spec2Model ----
(***************************************************************************)
(* Verification model of the AI-Crypto-Newsletter: the resilient-fetch and  *)
(* TTL cache core, the pipeline and the pure engines.                      *)
(*                                                                         *)
(*   SpecRetry  the retry/backoff loop of the four network adapters        *)
(*              (CoinGecko, CryptoPanic, OpenAI, SMTP)                     *)
(*   SpecCache  the file-backed TTL cache, one process, whole operations   *)
(*   SpecConc   one setCached and one getCached of the same key running    *)
(*              in two processes, interleaved at file-system-call level    *)
(*   SpecNews   fetchNews: the news adapter with its cache and retry loop  *)
(*   SpecPipeline  start-up, the cron trigger and the runs of the daily    *)
(*              pipeline, adapter call by adapter call                     *)
(*   SpecValidate  the checks of the OpenAI adapter on the parsed reply     *)
(*   SpecCorrelate  the correlation engine, a pure function                *)
(*   SpecFormat  formatCurrency on amounts around its thresholds           *)
(*   SpecSummarize  the prompt builder and the summarization engine up to  *)
(*              the call of the LLM adapter                                *)
(*   SpecFactory  createAdapters                                           *)
(*   SpecKey  the news cache key of two requests                           *)
(*   SpecRetryFair  SpecRetry with every attempt and wait finishing        *)
(***************************************************************************)
EXTENDS Integers, Sequences, FiniteSets, TLC

VARIABLES
  \* ---- retry loop (SpecRetry)
  adapter,      \* which adapter's loop runs: "market" | "news" | "llm" | "mail"
  env,          \* process.env: MAX_RETRIES and RETRY_DELAY_MS
  maxRetries,   \* parseInt(process.env.MAX_RETRIES || DEFAULT_MAX_RETRIES, 10)
  baseDelay,    \* parseInt(process.env.RETRY_DELAY_MS || DEFAULT_RETRY_DELAY_MS, 10)
  attempt,      \* the for-loop variable
  lastError,    \* the loop's lastError
  rpc,          \* "idle" | "attempting" | "sleeping" | "returned" | "thrown"
  history,      \* one record per attempt made: what the remote did, what the attempt raised
  delays,       \* the sleep(delay) calls made, in order
  thrown,       \* the error the call rejected with
  result,       \* the value the call resolved with
  delivered,    \* how often the message was handed over for delivery (mail)
  \* ---- TTL cache (SpecCache)
  cacheEnabled, \* process.env.ENABLE_CACHE !== "false"
  envTtl,       \* process.env.CACHE_TTL_MINUTES
  dirExists,    \* whether CACHE_DIR exists
  files,        \* the .json files of CACHE_DIR: path -> file
  now,          \* Date.now(), in milliseconds
  ticks,        \* clock advances made so far
  ops,          \* cache operations made so far
  lastOp,       \* the last cache operation and what it returned
  \* ---- one writer and one reader of the same cache file (SpecConc)
  inodes,       \* the contents of the files the two file descriptors can refer to
  link,         \* the inode the key's path names (0: the path does not exist)
  oldEntry,     \* the entry stored before the two calls (data <<>>, ttl 0 if none)
  newData,      \* the payload of the concurrent setCached
  wpc,          \* writer: "start" | "writing" | "done"
  wfd,          \* writer: the inode its descriptor refers to
  wtext,        \* writer: the text it writes
  rdpc,         \* reader: "start" | "open" | "reading" | "unlinking" | "done"
  rfd,          \* reader: the inode its descriptor refers to
  rsize,        \* reader: the size fstat reported
  rbuf,         \* reader: the text read so far
  rret,         \* reader: what getCached returned
  \* ---- fetchNews (SpecNews); it also uses the retry and cache variables
  apiKey,       \* whether process.env.CRYPTOPANIC_API_KEY is set
  coinSymbols,  \* the coinSymbols argument of the current call
  hoursBack,    \* the hoursBack argument of the current call
  callTime,     \* Date.now() when the current call was made
  newsFrom,     \* where the returned list came from: "cache" | "network" | "none"
  \* ---- start-up and pipeline runs (SpecPipeline)
  config,       \* process.env as start-up and the adapters check it
  booted,       \* "no" | "scheduled" | "exit": how far index.js got
  runs,         \* the pipeline runs started so far, one record each
  newsCached,   \* whether the news cache holds an unexpired entry
  \* ---- the checks on the LLM reply (SpecValidate)
  parsedResponse, \* JSON.parse(functionCall.arguments)
  expectedCoins,  \* the symbols the caller expects a summary for
  generation,     \* how performGeneration ended and with what
  \* ---- correlateData (SpecCorrelate)
  marketData,   \* the marketData argument: the coin snapshots
  newsData,     \* the newsData argument: the news items
  correlations, \* what correlateData returned
  \* ---- formatCurrency (SpecFormat)
  amountArg,    \* the amount argument
  formatted,    \* the text returned, <<>> before the call
  \* ---- generateSummaries (SpecSummarize)
  summarizeArg, \* the correlations argument
  summarizing,  \* how far generateSummaries got ("idle", "built", "awaiting",
                \* "returned", "thrown") and what it returned
  prompt,       \* what buildBatchPrompt returned
  llmCalls,     \* the calls of the LLM adapter made: the expectedCoins of each
  \* ---- createAdapters (SpecFactory)
  factoryConfig, \* the config argument
  adapters,     \* what createAdapters returned, <<>> before the call
  \* ---- getCacheKey of two requests (SpecKey)
  keyRequests,  \* the two requests: coinSymbols and hoursBack of each
  cacheKeys     \* the cacheKey of each, <<>> before they are computed

retryVars == <<adapter, env, maxRetries, baseDelay, attempt, lastError, rpc,
               history, delays, thrown, result, delivered>>

cacheVars == <<cacheEnabled, envTtl, dirExists, files, now, ticks, ops, lastOp>>

concVars == <<inodes, link, oldEntry, newData, wpc, wfd, wtext, rdpc, rfd, rsize, rbuf, rret>>

newsVars == <<apiKey, coinSymbols, hoursBack, callTime, newsFrom>>

pipeVars == <<config, booted, runs, newsCached>>

llmVars == <<parsedResponse, expectedCoins, generation>>

corrVars == <<marketData, newsData, correlations>>

fmtVars == <<amountArg, formatted>>

sumVars == <<summarizeArg, summarizing, prompt, llmCalls>>

factVars == <<factoryConfig, adapters>>

keyVars == <<keyRequests, cacheKeys>>

vars == <<retryVars, cacheVars, concVars, newsVars, pipeVars, llmVars, corrVars,
          fmtVars, sumVars, factVars, keyVars>>

----------------------------------------------------------------------------
(* Bounds of the model *)

\* MAX_RETRIES settings explored: -1 .. MaxRetriesBound, unset, non-numeric
MaxRetriesBound == 2
\* RETRY_DELAY_MS settings explored: 1 .. MaxDelayBound, unset
MaxDelayBound == 2

\* cache operations per behaviour
MaxOps == 3
\* clock advances per behaviour
MaxTicks == 2

(* Program constants *)
DEFAULT_TTL_MINUTES == 360
\* ttl = minutes * 60 * 1000
MsPerMinute == 60000
DEFAULT_MAX_RETRIES == 3
DEFAULT_RETRY_DELAY_MS == 1000
DEFAULT_RETRY_DELAY_MS_SMTP == 2000

Adapters == {"market", "news", "llm", "mail"}

----------------------------------------------------------------------------
(* Errors.  An error object carries what the code inspects: an HTTP status *)
(* (error.response.status for axios, error.status for the OpenAI client; 0 *)
(* when there is none), an error code, the checked phrases its lower-cased *)
(* message contains, errno, and whether it is a re-created Error that      *)
(* copies only a message.  kind is the failure class of the remote event.  *)

Err(kind, status, code, phrases, errno) ==
  [kind |-> kind, status |-> status, code |-> code, phrases |-> phrases,
   errno |-> errno, wrapped |-> FALSE]

NoError == Err("none", 0, "", {}, "")
\* the value of `let lastError;` before any assignment
Undefined == Err("undefined", 0, "", {}, "")

\* What axios.get can reject with (market data and news).
HttpErrors ==
  { Err("client", 400, "ERR_BAD_REQUEST", {}, ""),
    Err("client", 499, "ERR_BAD_REQUEST", {}, ""),
    Err("server", 500, "ERR_BAD_RESPONSE", {}, ""),
    Err("server", 503, "ERR_BAD_RESPONSE", {}, ""),
    Err("network", 0, "ECONNRESET", {}, ""),
    Err("timeout", 0, "ECONNABORTED", {}, "") }

\* What openai.chat.completions.create can reject with.
LlmErrors ==
  { Err("client", 400, "invalid_request_error", {}, ""),
    Err("client", 429, "rate_limit_exceeded", {}, ""),
    Err("server", 500, "server_error", {}, ""),
    Err("network", 0, "APIConnectionError", {}, ""),
    Err("timeout", 0, "APIConnectionTimeoutError", {}, "") }

\* What transporter.verify / transporter.sendMail can reject with.
SmtpErrors ==
  { Err("auth", 0, "EAUTH", {"invalid login"}, ""),
    Err("auth", 0, "EAUTH", {"authentication failed"}, ""),
    Err("credentials", 0, "EAUTH", {"invalid login", "username and password not accepted"}, ""),
    Err("credentials", 0, "EAUTH", {"invalid credentials"}, ""),
    Err("config", 0, "ESOCKET", {"connection refused"}, "ECONNREFUSED"),
    Err("server", 0, "EMESSAGE", {}, ""),
    Err("network", 0, "ECONNRESET", {}, ""),
    Err("timeout", 0, "ETIMEDOUT", {}, "") }

\* new Error(`<prefix>${error.message}`): the message (so every phrase in it)
\* is kept, every other property of the original is gone.
NewErrorFromMessage(e) ==
  [kind |-> e.kind, status |-> 0, code |-> "", phrases |-> e.phrases,
   errno |-> "", wrapped |-> TRUE]

\* throw new Error("<fixed text>"): a fresh error with none of the checked phrases
NewError(kind) == Err(kind, 0, "", {}, "")

----------------------------------------------------------------------------
(* One attempt: what the remote did (resp) and what the attempt makes of   *)
(* it.  An attempt's outcome is                                            *)
(*   ok      the attempt resolved                                          *)
(*   value   the value it resolved with                                    *)
(*   raw     the error the remote operation raised (NoError if none)       *)
(*   err     the error the attempt rejected with (NoError if ok)           *)
(*   sent    the number of hand-overs of the message to the transport      *)

Outcome(ok, value, raw, err, sent) ==
  [ok |-> ok, value |-> value, raw |-> raw, err |-> err, sent |-> sent]

Payloads == {1, 2}

\* A remote response: a well-formed body, a malformed body, or a rejection.
HttpResponses ==
  [type : {"body"}, payload : Payloads, error : {NoError}]
    \cup [type : {"malformed"}, payload : {0}, error : {NoError}]
    \cup [type : {"reject"}, payload : {0}, error : HttpErrors]

\* factory.js performFetch (CoinGecko)
performFetchMarket(resp) ==
  IF resp.type = "reject" THEN Outcome(FALSE, 0, resp.error, resp.error, 0)
  ELSE IF resp.type = "malformed"
    THEN Outcome(FALSE, 0, NewError("shape"), NewError("shape"), 0)
  ELSE Outcome(TRUE, resp.payload, NoError, NoError, 0)

\* cryptopanic.js performFetch
performFetchNews(resp) ==
  IF resp.type = "reject" THEN Outcome(FALSE, 0, resp.error, resp.error, 0)
  ELSE IF resp.type = "malformed"
    THEN Outcome(FALSE, 0, NewError("shape"), NewError("shape"), 0)
  ELSE Outcome(TRUE, resp.payload, NoError, NoError, 0)

\* The OpenAI reply: rejected, without a function call, with arguments that
\* are not JSON, without a summaries array, with a summaries array that
\* validateResponse rejects (an entry with an empty field), or a summaries
\* array that passes.
LlmResponses ==
  [type : {"summaries"}, payload : Payloads, error : {NoError}]
    \cup [type : {"nofunctioncall", "badjson", "nosummaries", "emptyfield"},
          payload : {0}, error : {NoError}]
    \cup [type : {"reject"}, payload : {0}, error : LlmErrors]

\* the SyntaxError JSON.parse raises
JsonSyntaxError == Err("shape", 0, "SyntaxError", {}, "")

performGeneration(resp) ==
  IF resp.type = "reject" THEN Outcome(FALSE, 0, resp.error, resp.error, 0)
  ELSE IF resp.type = "nofunctioncall"
    THEN Outcome(FALSE, 0, NewError("shape"), NewError("shape"), 0)
  ELSE IF resp.type = "badjson"
    \* catch (error) { throw new Error("Invalid JSON response from OpenAI") }
    THEN Outcome(FALSE, 0, JsonSyntaxError, NewError("shape"), 0)
  ELSE IF resp.type = "nosummaries"
    THEN Outcome(FALSE, 0, NewError("shape"), NewError("shape"), 0)
  ELSE IF resp.type = "emptyfield"
    \* validateResponse(parsedResponse, expectedCoins) throws
    THEN Outcome(FALSE, 0, NewError("shape"), NewError("shape"), 0)
  ELSE Outcome(TRUE, resp.payload, NoError, NoError, 0)

\* The SMTP exchange of one performSend: verify() rejects; or verify()
\* passes and sendMail rejects before the server took the message, rejects
\* after the server took it (the reply is lost), or resolves.
SmtpResponses ==
  [type : {"sent"}, payload : Payloads, error : {NoError}]
    \cup [type : {"verifyfail", "sendfail"}, payload : {0}, error : SmtpErrors]
    \cup [type : {"sendfail_after_accept"}, payload : {0},
          error : {e \in SmtpErrors : e.kind \in {"timeout", "network"}}]

performSend(resp) ==
  IF resp.type = "verifyfail"
    \* throw new Error(`SMTP connection failed: ${error.message}`)
    THEN Outcome(FALSE, 0, resp.error, NewErrorFromMessage(resp.error), 0)
  ELSE IF resp.type = "sendfail"
    THEN Outcome(FALSE, 0, resp.error, resp.error, 0)
  ELSE IF resp.type = "sendfail_after_accept"
    THEN Outcome(FALSE, 0, resp.error, resp.error, 1)
  ELSE Outcome(TRUE, resp.payload, NoError, NoError, 1)

Responses(a) ==
  CASE a = "market" -> HttpResponses
    [] a = "news" -> HttpResponses
    [] a = "llm" -> LlmResponses
    [] OTHER -> SmtpResponses

Perform(a, resp) ==
  CASE a = "market" -> performFetchMarket(resp)
    [] a = "news" -> performFetchNews(resp)
    [] a = "llm" -> performGeneration(resp)
    [] OTHER -> performSend(resp)

----------------------------------------------------------------------------
(* Error classification of the retry loops *)

\* a variant whose lower bound is strict: status 400 counts as retryable
IsClientErrorAxios_OffByOne(error) == error.status > 400 /\ error.status < 500

\* error.response && error.response.status >= 400 && error.response.status < 500
IsClientErrorAxios(error) == error.status # 0 /\ error.status >= 400 /\ error.status < 500

\* error.status && error.status >= 400 && error.status < 500
IsClientErrorOpenAI(error) == error.status # 0 /\ error.status >= 400 /\ error.status < 500

\* mockSMTP.js isNonRetryableError: substring checks on the lower-cased message
isNonRetryableError(error) ==
  \/ "invalid login" \in error.phrases
  \/ "authentication failed" \in error.phrases
  \/ "invalid credentials" \in error.phrases
  \/ "username and password not accepted" \in error.phrases
  \/ ("connection refused" \in error.phrases /\ error.errno = "ECONNREFUSED")

\* variant: a malformed-payload error ends the call like a client error
NonRetryable_ShapeFatal(a, error) ==
  \/ error.kind = "shape"
  \/ CASE a = "market" -> IsClientErrorAxios(error)
       [] a = "news" -> IsClientErrorAxios(error)
       [] a = "llm" -> IsClientErrorOpenAI(error)
       [] OTHER -> isNonRetryableError(error)

NonRetryable(a, error) ==
  CASE a = "market" -> IsClientErrorAxios(error)
    [] a = "news" -> IsClientErrorAxios(error)
    [] a = "llm" -> IsClientErrorOpenAI(error)
    [] OTHER -> isNonRetryableError(error)

----------------------------------------------------------------------------
(* Configuration: parseInt(process.env.X || DEFAULT, 10).  A setting is    *)
(* unset, a string that parses to no number (NaN), or a decimal integer.   *)

EnvUnset == [kind |-> "unset", val |-> 0]
EnvGarbage == [kind |-> "garbage", val |-> 0]
EnvInt(n) == [kind |-> "int", val |-> n]

\* a JavaScript number: NaN or an integer
Num(n) == [nan |-> FALSE, val |-> n]
NaN == [nan |-> TRUE, val |-> 0]

ParseIntOrDefault(setting, default) ==
  IF setting.kind = "unset" THEN Num(default)
  ELSE IF setting.kind = "garbage" THEN NaN
  ELSE Num(setting.val)

\* a <= b and a < b for an integer a and a JavaScript number b: false on NaN
JsLeq(a, b) == ~b.nan /\ a <= b.val
JsLt(a, b) == ~b.nan /\ a < b.val

DefaultDelay(a) == IF a = "mail" THEN DEFAULT_RETRY_DELAY_MS_SMTP ELSE DEFAULT_RETRY_DELAY_MS

RECURSIVE Pow2(_)
Pow2(n) == IF n <= 0 THEN 1 ELSE 2 * Pow2(n - 1)

\* variants of the delay: linear growth, and no growth
BackoffDelay_Linear(base, att) == base * (att + 1)
BackoffDelay_Constant(base, att) == base

\* const delay = baseDelay * Math.pow(2, attempt)
BackoffDelay(base, att) == base * Pow2(att)

----------------------------------------------------------------------------
(* The retry loop: fetchWithRetry (factory.js, cryptopanic.js),            *)
(* generateWithRetry, sendWithRetry.  The four loops are the same code up  *)
(* to the attempt made and the classification of its error.                *)

InitRetry ==
  /\ adapter \in Adapters
  /\ env \in [MAX_RETRIES : {EnvUnset, EnvGarbage} \cup {EnvInt(n) : n \in -1..MaxRetriesBound},
              RETRY_DELAY_MS : {EnvUnset} \cup {EnvInt(n) : n \in 1..MaxDelayBound}]
  /\ maxRetries = Num(0)
  /\ baseDelay = 0
  /\ attempt = 0
  /\ lastError = Undefined
  /\ rpc = "idle"
  /\ history = <<>>
  /\ delays = <<>>
  /\ thrown = NoError
  /\ result = 0
  /\ delivered = 0
  \* the cache is not part of this specification
  /\ cacheEnabled = TRUE
  /\ envTtl = [kind |-> "unset", val |-> 0]
  /\ dirExists = FALSE
  /\ files = <<>>
  /\ now = 0
  /\ ticks = 0
  /\ ops = 0
  /\ lastOp = <<>>
  \* no concurrent pair of calls is part of this specification
  /\ inodes = <<>>
  /\ link = 0
  /\ oldEntry = <<>>
  /\ newData = <<>>
  /\ wpc = "done"
  /\ wfd = 0
  /\ wtext = <<>>
  /\ rdpc = "done"
  /\ rfd = 0
  /\ rsize = 0
  /\ rbuf = <<>>
  /\ rret = <<>>
  \* no news fetch is part of this specification
  /\ apiKey = FALSE
  /\ coinSymbols = <<>>
  /\ hoursBack = 0
  /\ callTime = 0
  /\ newsFrom = "none"
  \* no pipeline run is part of this specification
  /\ config = <<>>
  /\ booted = "no"
  /\ runs = <<>>
  /\ newsCached = FALSE
  \* no reply is being checked and nothing is being correlated
  /\ parsedResponse = [type |-> "undefined", items |-> <<>>]
  /\ expectedCoins = <<>>
  /\ generation = [pc |-> "idle", value |-> <<>>, warned |-> FALSE, message |-> "",
                   index |-> 0]
  /\ marketData = <<>>
  /\ newsData = <<>>
  /\ correlations = [pc |-> "idle", value |-> <<>>]
  \* nothing is being formatted, summarized or constructed
  /\ amountArg = [isNull |-> TRUE, negative |-> FALSE, billions |-> 0, units |-> 0,
                  cents |-> 0]
  /\ formatted = <<>>
  /\ summarizeArg = [type |-> "undefined", items |-> <<>>]
  /\ summarizing = [pc |-> "idle", value |-> <<>>]
  /\ prompt = <<>>
  /\ llmCalls = <<>>
  /\ factoryConfig = <<>>
  /\ adapters = <<>>
  /\ keyRequests = <<>>
  /\ cacheKeys = <<>>

\* Leaving the for loop: console.error(...); throw lastError
ThrowLastError(e) ==
  /\ rpc' = "thrown"
  /\ thrown' = e

\* fetchMarketData / fetchNews / generateSummaries / sendNewsletter up to the
\* first await of the loop: the settings are parsed and the loop is entered.
CallAdapter ==
  /\ rpc = "idle"
  /\ LET r == ParseIntOrDefault(env.MAX_RETRIES, DEFAULT_MAX_RETRIES)
         d == ParseIntOrDefault(env.RETRY_DELAY_MS, DefaultDelay(adapter))
     IN /\ maxRetries' = r
        /\ baseDelay' = d.val
        /\ attempt' = 0
        /\ IF JsLeq(0, r)
             THEN rpc' = "attempting" /\ thrown' = thrown
             ELSE ThrowLastError(lastError)
  /\ UNCHANGED <<adapter, env, lastError, history, delays, result, delivered>>
  /\ UNCHANGED <<cacheVars, concVars, newsVars, pipeVars, llmVars, corrVars, fmtVars, sumVars, factVars, keyVars>>

\* The awaited attempt settles; on rejection the catch block runs up to its
\* throw, its sleep, or (last attempt) the end of the loop.
AttemptSettles ==
  /\ rpc = "attempting"
  /\ \E resp \in Responses(adapter) :
       LET out == Perform(adapter, resp) IN
       /\ history' = Append(history, out)
       /\ delivered' = delivered + out.sent
       /\ IF out.ok
            THEN /\ rpc' = "returned"
                 /\ result' = out.value
                 /\ UNCHANGED <<lastError, thrown, delays, attempt>>
            ELSE /\ lastError' = out.err
                 /\ result' = result
                 /\ IF NonRetryable(adapter, out.err)
                      THEN /\ ThrowLastError(out.err)
                           /\ UNCHANGED <<delays, attempt>>
                      ELSE IF JsLt(attempt, maxRetries)
                        THEN /\ delays' = Append(delays, BackoffDelay(baseDelay, attempt))
                             /\ rpc' = "sleeping"
                             /\ UNCHANGED <<thrown, attempt>>
                        ELSE \* attempt++ ends the loop
                             /\ attempt' = attempt + 1
                             /\ ThrowLastError(out.err)
                             /\ delays' = delays
  /\ UNCHANGED <<adapter, env, maxRetries, baseDelay>>
  /\ UNCHANGED <<cacheVars, concVars, newsVars, pipeVars, llmVars, corrVars, fmtVars, sumVars, factVars, keyVars>>

\* variant: the backoff timer never fires, the call stays in its sleep
SleepDone_TimerLost ==
  /\ rpc = "sleeping"
  /\ UNCHANGED vars

\* The backoff timer fires: attempt++, the loop condition is checked again.
SleepDone ==
  /\ rpc = "sleeping"
  /\ attempt' = attempt + 1
  /\ IF JsLeq(attempt + 1, maxRetries)
       THEN rpc' = "attempting" /\ thrown' = thrown
       ELSE ThrowLastError(lastError)
  /\ UNCHANGED <<adapter, env, maxRetries, baseDelay, lastError, history,
                 delays, result, delivered>>
  /\ UNCHANGED <<cacheVars, concVars, newsVars, pipeVars, llmVars, corrVars, fmtVars, sumVars, factVars, keyVars>>

NextRetry ==
  \/ CallAdapter
  \/ AttemptSettles
  \/ SleepDone

----------------------------------------------------------------------------
(* The TTL cache (utils/cache.js).  A key is a string, here the sequence   *)
(* of its characters; a file holds the text JSON.stringify produced, here  *)
(* the sequence of its tokens: the opening token with the timestamp and    *)
(* ttl members, one token per element of the data array, the closing one.  *)

SafeChars ==
  { "a", "b", "c", "d", "e", "f", "g", "h", "i", "j", "k", "l", "m", "n", "o",
    "p", "q", "r", "s", "t", "u", "v", "w", "x", "y", "z",
    "A", "B", "C", "D", "E", "F", "G", "H", "I", "J", "K", "L", "M", "N", "O",
    "P", "Q", "R", "S", "T", "U", "V", "W", "X", "Y", "Z",
    "0", "1", "2", "3", "4", "5", "6", "7", "8", "9", ",", "-" }

\* const sanitized = key.replace(/[^a-zA-Z0-9,-]/g, "_"); `${sanitized}.json`
getCacheFilePath(key) ==
  [i \in 1..Len(key) |-> IF key[i] \in SafeChars THEN key[i] ELSE "_"]

Keys == { <<"B", "T", "C">>, <<"A", ".", "B">>, <<"A", "_", "B">> }
Paths == { getCacheFilePath(k) : k \in Keys }

\* the data arrays cached: lists of news items (an item is a number here)
CachePayloads == { <<>>, <<1>> }

\* the ttlMinutes arguments (0: omitted) and CACHE_TTL_MINUTES settings explored
TtlArguments == {0, 1}
TtlSettings == {EnvUnset, EnvInt(1)}

Tok(t, a, b) == [t |-> t, a |-> a, b |-> b]

\* JSON.stringify(cacheEntry, null, 2)
Stringify(entry) ==
  <<Tok("open", entry.timestamp, entry.ttl)>>
    \o [i \in 1..Len(entry.data) |-> Tok("item", entry.data[i], 0)]
    \o <<Tok("close", 0, 0)>>

\* a variant that accepts a text cut off before its end
Parses_Lenient(text) == Len(text) >= 2 /\ text[1].t = "open"

\* whether JSON.parse accepts the text
Parses(text) ==
  /\ Len(text) >= 2
  /\ text[1].t = "open"
  /\ text[Len(text)].t = "close"
  /\ \A i \in 2..(Len(text) - 1) : text[i].t = "item"

\* JSON.parse(fileContent), for a text it accepts
Parse(text) ==
  [timestamp |-> text[1].a, ttl |-> text[1].b,
   data |-> [i \in 1..(Len(text) - 2) |-> text[i + 1].a]]

File(text) == [exists |-> TRUE, text |-> text]
NoFile == [exists |-> FALSE, text |-> <<>>]

\* a variant that leaves the file in place
unlinkSync_Noop(fs, filePath) == fs

\* fs.unlinkSync(filePath)
unlinkSync(fs, filePath) == [fs EXCEPT ![filePath] = NoFile]

\* What getCached returns: null, or cached.data
Null == [hit |-> FALSE, data |-> <<>>]
Hit(data) == [hit |-> TRUE, data |-> data]

\* a variant that converts minutes to milliseconds as if they were seconds
TtlMs_Seconds(ttlMinutes, setting) ==
  (IF ttlMinutes # 0 THEN ttlMinutes
   ELSE ParseIntOrDefault(setting, DEFAULT_TTL_MINUTES).val) * 1000

\* (ttlMinutes || parseInt(process.env.CACHE_TTL_MINUTES || DEFAULT_TTL_MINUTES, 10)) * 60 * 1000
\* ttlMinutes = 0 stands for an omitted (null) or zero argument: both are falsy
TtlMs(ttlMinutes, setting) ==
  (IF ttlMinutes # 0 THEN ttlMinutes
   ELSE ParseIntOrDefault(setting, DEFAULT_TTL_MINUTES).val) * MsPerMinute

\* a variant for which the boundary instant is already expired
Expired_Geq(cached, t) == t >= cached.timestamp + cached.ttl

\* if (now > expiresAt)
Expired(cached, t) == t > cached.timestamp + cached.ttl

\* The record of one operation: why is the branch it left by
\*   get:   "disabled" | "notfound" | "hit" | "expired" | "error"
\*   set:   "disabled" | "stored" | "error"
\*   clear: "nodir" | "cleared" | "error"
\* For a set that stored its entry, data, ttlMinutes and at are the payload
\* and ttlMinutes arguments and the time of the call; count is what clear
\* returned.
Op(op, key, why, ret, count, data, ttlMinutes, at) ==
  [op |-> op, key |-> key, why |-> why, ret |-> ret, count |-> count,
   data |-> data, ttlMinutes |-> ttlMinutes, at |-> at]

NoOp == Op("none", <<>>, "", Null, 0, <<>>, 0, 0)

InitCache ==
  /\ cacheEnabled \in BOOLEAN
  /\ envTtl \in TtlSettings
  /\ dirExists = FALSE
  /\ files = [p \in Paths |-> NoFile]
  /\ now = 0
  /\ ticks = 0
  /\ ops = 0
  /\ lastOp = NoOp
  \* no adapter call is part of this specification
  /\ adapter = "news"
  /\ env = [MAX_RETRIES |-> EnvUnset, RETRY_DELAY_MS |-> EnvUnset]
  /\ maxRetries = Num(0)
  /\ baseDelay = 0
  /\ attempt = 0
  /\ lastError = Undefined
  /\ rpc = "idle"
  /\ history = <<>>
  /\ delays = <<>>
  /\ thrown = NoError
  /\ result = 0
  /\ delivered = 0
  \* no concurrent pair of calls is part of this specification
  /\ inodes = <<>>
  /\ link = 0
  /\ oldEntry = <<>>
  /\ newData = <<>>
  /\ wpc = "done"
  /\ wfd = 0
  /\ wtext = <<>>
  /\ rdpc = "done"
  /\ rfd = 0
  /\ rsize = 0
  /\ rbuf = <<>>
  /\ rret = <<>>
  \* no news fetch is part of this specification
  /\ apiKey = FALSE
  /\ coinSymbols = <<>>
  /\ hoursBack = 0
  /\ callTime = 0
  /\ newsFrom = "none"
  \* no pipeline run is part of this specification
  /\ config = <<>>
  /\ booted = "no"
  /\ runs = <<>>
  /\ newsCached = FALSE
  \* no reply is being checked and nothing is being correlated
  /\ parsedResponse = [type |-> "undefined", items |-> <<>>]
  /\ expectedCoins = <<>>
  /\ generation = [pc |-> "idle", value |-> <<>>, warned |-> FALSE, message |-> "",
                   index |-> 0]
  /\ marketData = <<>>
  /\ newsData = <<>>
  /\ correlations = [pc |-> "idle", value |-> <<>>]
  \* nothing is being formatted, summarized or constructed
  /\ amountArg = [isNull |-> TRUE, negative |-> FALSE, billions |-> 0, units |-> 0,
                  cents |-> 0]
  /\ formatted = <<>>
  /\ summarizeArg = [type |-> "undefined", items |-> <<>>]
  /\ summarizing = [pc |-> "idle", value |-> <<>>]
  /\ prompt = <<>>
  /\ llmCalls = <<>>
  /\ factoryConfig = <<>>
  /\ adapters = <<>>
  /\ keyRequests = <<>>
  /\ cacheKeys = <<>>

Record(o) ==
  /\ ops < MaxOps
  /\ ops' = ops + 1
  /\ lastOp' = o

\* a variant of getCached that does not look at ENABLE_CACHE
getCached_IgnoresFlag(key, io) ==
  LET filePath == getCacheFilePath(key)
      file == files[filePath]
      get(why, ret) == Record(Op("get", key, why, ret, 0, <<>>, 0, 0))
  IN
  IF ~file.exists THEN get("notfound", Null) /\ UNCHANGED files
  ELSE IF io = "read" \/ ~Parses(file.text) THEN get("error", Null) /\ UNCHANGED files
  ELSE IF Expired(Parse(file.text), now)
    THEN IF io = "unlink"
      THEN get("error", Null) /\ UNCHANGED files
      ELSE get("expired", Null) /\ files' = unlinkSync(files, filePath)
    ELSE get("hit", Hit(Parse(file.text).data)) /\ UNCHANGED files

\* variant: every lookup reports the key absent
getCached_AlwaysMiss(key, io) ==
  /\ Record(Op("get", key, "notfound", Null, 0, <<>>, 0, 0))
  /\ UNCHANGED files

\* getCached(key).  io is the storage failure met, if any:
\*   "read"   fs.readFileSync throws
\*   "unlink" fs.unlinkSync throws
getCached(key, io) ==
  LET filePath == getCacheFilePath(key)
      file == files[filePath]
      get(why, ret) == Record(Op("get", key, why, ret, 0, <<>>, 0, 0))
  IN
  IF ~cacheEnabled THEN get("disabled", Null) /\ UNCHANGED files
  ELSE IF ~file.exists THEN get("notfound", Null) /\ UNCHANGED files
  ELSE IF io = "read" THEN get("error", Null) /\ UNCHANGED files
  ELSE IF ~Parses(file.text) THEN get("error", Null) /\ UNCHANGED files
  ELSE LET cached == Parse(file.text) IN
    IF Expired(cached, now)
      THEN IF io = "unlink"
        THEN get("error", Null) /\ UNCHANGED files
        ELSE get("expired", Null) /\ files' = unlinkSync(files, filePath)
      ELSE get("hit", Hit(cached.data)) /\ UNCHANGED files

GetCached ==
  /\ \E key \in Keys, io \in {"none", "read", "unlink"} : getCached(key, io)
  /\ UNCHANGED <<cacheEnabled, envTtl, dirExists, now, ticks>>
  /\ UNCHANGED <<retryVars, concVars, newsVars, pipeVars, llmVars, corrVars, fmtVars, sumVars, factVars, keyVars>>

\* ensureCacheDir(): mkdirSync may fail, which is only logged
ensureCacheDir(mkdirFails) == dirExists \/ ~mkdirFails

\* variant: the store reports success without writing the file
setCached_NoWrite(key, data, ttlMinutes, io, written) ==
  /\ Record(Op("set", key, "stored", Null, 0, data, ttlMinutes, now))
  /\ UNCHANGED <<files, dirExists>>

\* setCached(key, data, ttlMinutes).  io is the storage failure met, if any:
\*   "mkdir"  fs.mkdirSync throws
\*   "open"   fs.writeFileSync throws before it touched the file
\*   "write"  fs.writeFileSync throws after it truncated the file and wrote
\*            the first `written` tokens of the text
setCached(key, data, ttlMinutes, io, written) ==
  LET filePath == getCacheFilePath(key)
      ttl == TtlMs(ttlMinutes, envTtl)
      cacheEntry == [timestamp |-> now, ttl |-> ttl, data |-> data]
      text == Stringify(cacheEntry)
      set(why) ==
        Record(IF why = "stored" THEN Op("set", key, why, Null, 0, data, ttlMinutes, now)
               ELSE Op("set", key, why, Null, 0, <<>>, 0, 0))
  IN
  IF ~cacheEnabled THEN set("disabled") /\ UNCHANGED <<files, dirExists>>
  ELSE
    /\ dirExists' = ensureCacheDir(io = "mkdir")
    /\ IF ~dirExists' \/ io = "open"
         THEN set("error") /\ UNCHANGED files
       ELSE IF io = "write"
         THEN /\ written < Len(text)
              /\ set("error")
              /\ files' = [files EXCEPT ![filePath] = File(SubSeq(text, 1, written))]
         ELSE /\ set("stored")
              /\ files' = [files EXCEPT ![filePath] = File(text)]

SetCached ==
  /\ \E key \in Keys, data \in CachePayloads, ttlMinutes \in TtlArguments,
        io \in {"none", "mkdir", "open", "write"} :
       \E written \in IF io = "write" THEN 0..(Len(data) + 1) ELSE {0} :
         setCached(key, data, ttlMinutes, io, written)
  /\ UNCHANGED <<cacheEnabled, envTtl, now, ticks>>
  /\ UNCHANGED <<retryVars, concVars, newsVars, pipeVars, llmVars, corrVars, fmtVars, sumVars, factVars, keyVars>>

\* files.forEach(... fs.unlinkSync(filePath) ...) over the files in `paths`
RECURSIVE UnlinkAll(_, _)
UnlinkAll(fs, paths) ==
  IF paths = {} THEN fs
  ELSE LET p == CHOOSE q \in paths : TRUE
       IN UnlinkAll(unlinkSync(fs, p), paths \ {p})

\* clearCache().  io is the storage failure met, if any:
\*   "readdir" fs.readdirSync throws
\*   "unlink"  fs.statSync or fs.unlinkSync throws at some file, after the
\*             files in `removed` (those readdir listed before it) are gone
clearCache(io, removed) ==
  LET entries == {p \in Paths : files[p].exists}
      clear(why, count) == Record(Op("clear", <<>>, why, Null, count, <<>>, 0, 0))
  IN
  IF ~dirExists THEN clear("nodir", 0) /\ UNCHANGED files
  ELSE IF io = "readdir" THEN clear("error", 0) /\ UNCHANGED files
  ELSE IF io = "unlink"
    THEN /\ removed \subseteq entries
         /\ removed # entries
         /\ clear("error", 0)
         /\ files' = UnlinkAll(files, removed)
    ELSE /\ removed = entries
         /\ clear("cleared", Cardinality(entries))
         /\ files' = UnlinkAll(files, entries)

ClearCache ==
  /\ \E io \in {"none", "readdir", "unlink"}, removed \in SUBSET Paths :
       clearCache(io, removed)
  /\ UNCHANGED <<cacheEnabled, envTtl, dirExists, now, ticks>>
  /\ UNCHANGED <<retryVars, concVars, newsVars, pipeVars, llmVars, corrVars, fmtVars, sumVars, factVars, keyVars>>

\* The clock advances by a minute (within the horizon of
\* MaxOps operations: time that passes after the last one is not observed).
Tick ==
  /\ ops < MaxOps
  /\ ticks < MaxTicks
  /\ ticks' = ticks + 1
  /\ now' = now + MsPerMinute
  /\ UNCHANGED <<cacheEnabled, envTtl, dirExists, files, ops, lastOp>>
  /\ UNCHANGED <<retryVars, concVars, newsVars, pipeVars, llmVars, corrVars, fmtVars, sumVars, factVars, keyVars>>

\* A later run of the program starts with ENABLE_CACHE set the other way.
Restart ==
  /\ ops < MaxOps
  /\ cacheEnabled' = ~cacheEnabled
  /\ UNCHANGED <<envTtl, dirExists, files, now, ticks, ops, lastOp>>
  /\ UNCHANGED <<retryVars, concVars, newsVars, pipeVars, llmVars, corrVars, fmtVars, sumVars, factVars, keyVars>>

NextCache ==
  \/ GetCached
  \/ SetCached
  \/ ClearCache
  \/ Tick
  \/ Restart


----------------------------------------------------------------------------
(* setCached(key, newData) in one process and getCached(key) in another,   *)
(* step by file-system call.  fs.writeFileSync opens the path with         *)
(* O_CREAT | O_TRUNC and writes the text piece by piece; fs.readFileSync   *)
(* opens the path, takes the size, and reads piece by piece up to that     *)
(* size or up to the end of the file (Node builds differ).  A piece is one *)
(* token of the text.                                                      *)

ConcOldPayloads == { <<1>>, <<1, 2>> }
ConcNewPayloads == { <<3>>, <<3, 4>> }
NoEntry == [timestamp |-> 0, ttl |-> 0, data |-> <<>>]

InitConc ==
  /\ cacheEnabled = TRUE
  /\ envTtl \in TtlSettings
  /\ dirExists = TRUE
  /\ files = <<>>
  \* the old entry was stored at time 0; it is one or two minutes old
  /\ now \in {MsPerMinute, 2 * MsPerMinute}
  /\ ticks = 0
  /\ ops = 0
  /\ lastOp = <<>>
  /\ oldEntry \in {NoEntry}
       \cup [timestamp : {0}, ttl : {TtlMs(1, EnvUnset)}, data : ConcOldPayloads]
  /\ newData \in ConcNewPayloads
  /\ inodes = [i \in 1..2 |-> IF i = 1 /\ oldEntry # NoEntry THEN Stringify(oldEntry) ELSE <<>>]
  /\ link = IF oldEntry # NoEntry THEN 1 ELSE 0
  /\ wpc = "start"
  /\ wfd = 0
  /\ wtext = <<>>
  /\ rdpc = "start"
  /\ rfd = 0
  /\ rsize = 0
  /\ rbuf = <<>>
  /\ rret = Null
  /\ adapter = "news"
  /\ env = [MAX_RETRIES |-> EnvUnset, RETRY_DELAY_MS |-> EnvUnset]
  /\ maxRetries = Num(0)
  /\ baseDelay = 0
  /\ attempt = 0
  /\ lastError = Undefined
  /\ rpc = "idle"
  /\ history = <<>>
  /\ delays = <<>>
  /\ thrown = NoError
  /\ result = 0
  /\ delivered = 0
  \* no news fetch is part of this specification
  /\ apiKey = FALSE
  /\ coinSymbols = <<>>
  /\ hoursBack = 0
  /\ callTime = 0
  /\ newsFrom = "none"
  \* no pipeline run is part of this specification
  /\ config = <<>>
  /\ booted = "no"
  /\ runs = <<>>
  /\ newsCached = FALSE
  \* no reply is being checked and nothing is being correlated
  /\ parsedResponse = [type |-> "undefined", items |-> <<>>]
  /\ expectedCoins = <<>>
  /\ generation = [pc |-> "idle", value |-> <<>>, warned |-> FALSE, message |-> "",
                   index |-> 0]
  /\ marketData = <<>>
  /\ newsData = <<>>
  /\ correlations = [pc |-> "idle", value |-> <<>>]
  \* nothing is being formatted, summarized or constructed
  /\ amountArg = [isNull |-> TRUE, negative |-> FALSE, billions |-> 0, units |-> 0,
                  cents |-> 0]
  /\ formatted = <<>>
  /\ summarizeArg = [type |-> "undefined", items |-> <<>>]
  /\ summarizing = [pc |-> "idle", value |-> <<>>]
  /\ prompt = <<>>
  /\ llmCalls = <<>>
  /\ factoryConfig = <<>>
  /\ adapters = <<>>
  /\ keyRequests = <<>>
  /\ cacheKeys = <<>>

\* setCached up to the open of fs.writeFileSync: the entry is built and the
\* path is opened, which creates the file or empties the existing one.
WriterOpen ==
  /\ wpc = "start"
  /\ LET ttl == TtlMs(0, envTtl)
         cacheEntry == [timestamp |-> now, ttl |-> ttl, data |-> newData]
         fd == IF link = 0 THEN 2 ELSE link
     IN /\ wtext' = Stringify(cacheEntry)
        /\ wfd' = fd
        /\ link' = fd
        /\ inodes' = [inodes EXCEPT ![fd] = <<>>]
  /\ wpc' = "writing"
  /\ UNCHANGED <<oldEntry, newData, rdpc, rfd, rsize, rbuf, rret>>
  /\ UNCHANGED <<retryVars, cacheVars, newsVars, pipeVars, llmVars, corrVars, fmtVars, sumVars, factVars, keyVars>>

\* fs.writeFileSync writes the next piece; after the last one it closes the
\* file and setCached returns.
WriterWrite ==
  /\ wpc = "writing"
  /\ LET n == Len(inodes[wfd]) + 1
     IN /\ inodes' = [inodes EXCEPT ![wfd] = Append(@, wtext[n])]
        /\ wpc' = IF n = Len(wtext) THEN "done" ELSE "writing"
  /\ UNCHANGED <<link, oldEntry, newData, wfd, wtext, rdpc, rfd, rsize, rbuf, rret>>
  /\ UNCHANGED <<retryVars, cacheVars, newsVars, pipeVars, llmVars, corrVars, fmtVars, sumVars, factVars, keyVars>>

\* if (!fs.existsSync(filePath)) return null
ReaderExists ==
  /\ rdpc = "start"
  /\ IF link = 0
       THEN rdpc' = "done" /\ rret' = Null
       ELSE rdpc' = "open" /\ rret' = rret
  /\ UNCHANGED <<inodes, link, oldEntry, newData, wpc, wfd, wtext, rfd, rsize, rbuf>>
  /\ UNCHANGED <<retryVars, cacheVars, newsVars, pipeVars, llmVars, corrVars, fmtVars, sumVars, factVars, keyVars>>

\* fs.readFileSync opens the path and takes the file's size; a path that is
\* gone by now makes it throw, and getCached returns null.
ReaderOpen ==
  /\ rdpc = "open"
  /\ IF link = 0
       THEN rdpc' = "done" /\ rret' = Null /\ UNCHANGED <<rfd, rsize>>
       ELSE rdpc' = "reading" /\ rfd' = link /\ rsize' = Len(inodes[link]) /\ rret' = rret
  /\ UNCHANGED <<inodes, link, oldEntry, newData, wpc, wfd, wtext, rbuf>>
  /\ UNCHANGED <<retryVars, cacheVars, newsVars, pipeVars, llmVars, corrVars, fmtVars, sumVars, factVars, keyVars>>

\* fs.readFileSync reads the next piece at its position in the file.
ReaderRead ==
  /\ rdpc = "reading"
  /\ Len(rbuf) < Len(inodes[rfd])
  /\ rbuf' = Append(rbuf, inodes[rfd][Len(rbuf) + 1])
  /\ UNCHANGED <<inodes, link, oldEntry, newData, wpc, wfd, wtext, rdpc, rfd, rsize, rret>>
  /\ UNCHANGED <<retryVars, cacheVars, newsVars, pipeVars, llmVars, corrVars, fmtVars, sumVars, factVars, keyVars>>

\* fs.readFileSync returns (at the end of the file, or with the size taken
\* at the open read); getCached parses the text and checks the expiry.
ReaderParse ==
  /\ rdpc = "reading"
  /\ \/ Len(rbuf) = Len(inodes[rfd])
     \/ (rsize > 0 /\ Len(rbuf) = rsize)
  /\ IF ~Parses(rbuf)
       THEN rdpc' = "done" /\ rret' = Null
       ELSE IF Expired(Parse(rbuf), now)
         THEN rdpc' = "unlinking" /\ rret' = rret
         ELSE rdpc' = "done" /\ rret' = Hit(Parse(rbuf).data)
  /\ UNCHANGED <<inodes, link, oldEntry, newData, wpc, wfd, wtext, rfd, rsize, rbuf>>
  /\ UNCHANGED <<retryVars, cacheVars, newsVars, pipeVars, llmVars, corrVars, fmtVars, sumVars, factVars, keyVars>>

\* fs.unlinkSync(filePath); return null.  A path that is gone makes it throw,
\* and getCached returns null as well.
ReaderUnlink ==
  /\ rdpc = "unlinking"
  /\ link' = 0
  /\ rdpc' = "done"
  /\ rret' = Null
  /\ UNCHANGED <<inodes, oldEntry, newData, wpc, wfd, wtext, rfd, rsize, rbuf>>
  /\ UNCHANGED <<retryVars, cacheVars, newsVars, pipeVars, llmVars, corrVars, fmtVars, sumVars, factVars, keyVars>>

NextConc ==
  \/ WriterOpen
  \/ WriterWrite
  \/ ReaderExists
  \/ ReaderOpen
  \/ ReaderRead
  \/ ReaderParse
  \/ ReaderUnlink

----------------------------------------------------------------------------
(* fetchNews (cryptopanic.js): argument and key checks, the cache lookup,  *)
(* the retry loop around performFetch, the cache store.  A news item is    *)
(* identified with its publishedAt instant, in milliseconds.               *)

MsPerHour == 3600000

\* the characters of the keys, in the order of their UTF-16 code units
Alphabet ==
  <<",", "-", ".", "0", "1", "2", "3", "4", "5", "6", "7", "8", "9",
    "A", "B", "C", "D", "E", "F", "G", "H", "I", "J", "K", "L", "M", "N", "O",
    "P", "Q", "R", "S", "T", "U", "V", "W", "X", "Y", "Z", "_",
    "a", "b", "c", "d", "e", "f", "g", "h", "i", "j", "k", "l", "m", "n", "o",
    "p", "q", "r", "s", "t", "u", "v", "w", "x", "y", "z">>
CharCode(c) == CHOOSE i \in 1..Len(Alphabet) : Alphabet[i] = c

\* a < b for two strings, as Array.prototype.sort compares them by default
RECURSIVE StrLess(_, _)
StrLess(a, b) ==
  IF b = <<>> THEN FALSE
  ELSE IF a = <<>> THEN TRUE
  ELSE IF Head(a) = Head(b) THEN StrLess(Tail(a), Tail(b))
  ELSE CharCode(Head(a)) < CharCode(Head(b))

\* [...coinSymbols].sort()
RECURSIVE Insert(_, _)
Insert(x, sorted) ==
  IF sorted = <<>> THEN <<x>>
  ELSE IF StrLess(x, Head(sorted)) THEN <<x>> \o sorted
  ELSE <<Head(sorted)>> \o Insert(x, Tail(sorted))
RECURSIVE Sort(_)
Sort(strings) ==
  IF strings = <<>> THEN <<>>
  ELSE Insert(strings[Len(strings)], Sort(SubSeq(strings, 1, Len(strings) - 1)))

\* .join(",")
RECURSIVE Join(_)
Join(strings) ==
  IF strings = <<>> THEN <<>>
  ELSE IF Len(strings) = 1 THEN Head(strings)
  ELSE Head(strings) \o <<",">> \o Join(Tail(strings))

\* the decimal digits of a non-negative integer
Digit(d) == Alphabet[d + 4]
RECURSIVE DecimalString(_)
DecimalString(n) == IF n < 10 THEN <<Digit(n)>> ELSE DecimalString(n \div 10) \o <<Digit(n % 10)>>

\* variant: the key joins the symbols in the order given
getCacheKey_Unsorted(symbols, hours) ==
  <<"c", "r", "y", "p", "t", "o", "p", "a", "n", "i", "c", "-">>
    \o Join(symbols) \o <<"-">> \o DecimalString(hours) \o <<"h">>

\* `cryptopanic-${sortedCoins}-${hoursBack}h`
getCacheKey(symbols, hours) ==
  <<"c", "r", "y", "p", "t", "o", "p", "a", "n", "i", "c", "-">>
    \o Join(Sort(symbols)) \o <<"-">> \o DecimalString(hours) \o <<"h">>

BTC == <<"B", "T", "C">>
ETH == <<"E", "T", "H">>
\* the coinSymbols and hoursBack arguments explored
NewsSymbolLists == { <<>>, <<ETH, BTC>> }
NewsWindows == {1, 2}
NewsKeys == { getCacheKey(l, h) : l \in NewsSymbolLists \ {<<>>}, h \in NewsWindows }
NewsPaths == { getCacheFilePath(k) : k \in NewsKeys }

\* What the API lists for an item: created_at / published_at holding an
\* ISO instant, holding text that is no date, or absent.
Iso(t) == [kind |-> "iso", t |-> t]
MissingDate == [kind |-> "missing", t |-> 0]
GarbageDate == [kind |-> "garbage", t |-> 0]

\* the items the API can list at time t: zero to three hours old, or undated
RawItems(t) == { Iso(t - h * MsPerHour) : h \in 0..3 } \cup {MissingDate, GarbageDate}
RawLists(t) ==
  {<<>>} \cup { <<a>> : a \in RawItems(t) }
    \cup { <<Iso(t - 3 * MsPerHour), Iso(t - MsPerHour)>>, <<GarbageDate, Iso(t)>> }

NewsResponses(t) ==
  [type : {"body"}, items : RawLists(t), error : {NoError}]
    \cup [type : {"malformed"}, items : {<<>>}, error : {NoError}]
    \cup [type : {"reject"}, items : {<<>>},
          error : {e \in HttpErrors : e.status \in {400, 503} \/ e.kind = "timeout"}]

\* publishedAt: item.created_at || item.published_at || new Date().toISOString()
transformNewsItem(item, t) == IF item.kind = "missing" THEN Iso(t) ELSE item

\* new Date(item.publishedAt): its time value, NaN for text that is no date
DateOf(publishedAt) == IF publishedAt.kind = "iso" THEN Num(publishedAt.t) ELSE NaN

\* const cutoffTime = new Date(Date.now() - hoursBack * 60 * 60 * 1000)
CutoffTime(t, hours) == t - hours * MsPerHour

\* cryptopanic.js performFetch at time t: the request, the format check,
\* .map(transformNewsItem).filter(new Date(item.publishedAt) >= cutoffTime)
performFetch(resp, hours, t) ==
  IF resp.type = "reject" THEN Outcome(FALSE, <<>>, resp.error, resp.error, 0)
  ELSE IF resp.type = "malformed"
    THEN Outcome(FALSE, <<>>, NewError("shape"), NewError("shape"), 0)
  ELSE
    LET mapped == [i \in 1..Len(resp.items) |-> transformNewsItem(resp.items[i], t)]
        InWindow(item) == JsLeq(CutoffTime(t, hours), DateOf(item))
        kept == SelectSeq(mapped, InWindow)
    IN Outcome(TRUE, [i \in 1..Len(kept) |-> kept[i].t], NoError, NoError, 0)

InitNews ==
  /\ adapter = "news"
  /\ env \in [MAX_RETRIES : {EnvInt(0), EnvInt(1)}, RETRY_DELAY_MS : {EnvInt(1)}]
  /\ maxRetries = Num(0)
  /\ baseDelay = 0
  /\ attempt = 0
  /\ lastError = Undefined
  /\ rpc = "idle"
  /\ history = <<>>
  /\ delays = <<>>
  /\ thrown = NoError
  /\ result = <<>>
  /\ delivered = 0
  /\ cacheEnabled \in BOOLEAN
  /\ envTtl \in TtlSettings
  /\ dirExists = FALSE
  /\ files = [p \in NewsPaths |-> NoFile]
  /\ now = 3 * MsPerHour
  /\ ticks = 0
  /\ ops = 0
  /\ lastOp = NoOp
  /\ apiKey \in BOOLEAN
  /\ coinSymbols = <<>>
  /\ hoursBack = 0
  /\ callTime = 0
  /\ newsFrom = "none"
  \* no concurrent pair of calls is part of this specification
  /\ inodes = <<>>
  /\ link = 0
  /\ oldEntry = <<>>
  /\ newData = <<>>
  /\ wpc = "done"
  /\ wfd = 0
  /\ wtext = <<>>
  /\ rdpc = "done"
  /\ rfd = 0
  /\ rsize = 0
  /\ rbuf = <<>>
  /\ rret = <<>>
  \* no pipeline run is part of this specification
  /\ config = <<>>
  /\ booted = "no"
  /\ runs = <<>>
  /\ newsCached = FALSE
  \* no reply is being checked and nothing is being correlated
  /\ parsedResponse = [type |-> "undefined", items |-> <<>>]
  /\ expectedCoins = <<>>
  /\ generation = [pc |-> "idle", value |-> <<>>, warned |-> FALSE, message |-> "",
                   index |-> 0]
  /\ marketData = <<>>
  /\ newsData = <<>>
  /\ correlations = [pc |-> "idle", value |-> <<>>]
  \* nothing is being formatted, summarized or constructed
  /\ amountArg = [isNull |-> TRUE, negative |-> FALSE, billions |-> 0, units |-> 0,
                  cents |-> 0]
  /\ formatted = <<>>
  /\ summarizeArg = [type |-> "undefined", items |-> <<>>]
  /\ summarizing = [pc |-> "idle", value |-> <<>>]
  /\ prompt = <<>>
  /\ llmCalls = <<>>
  /\ factoryConfig = <<>>
  /\ adapters = <<>>
  /\ keyRequests = <<>>
  /\ cacheKeys = <<>>

\* fetchNews(symbols, hours) up to its first await: the argument and API key
\* checks, the cache lookup, and on a miss the entry into the retry loop.
FetchNews ==
  /\ rpc \in {"idle", "returned", "thrown"}
  /\ \E symbols \in NewsSymbolLists, hours \in NewsWindows, io \in {"none", "read", "unlink"} :
       /\ coinSymbols' = symbols
       /\ hoursBack' = hours
       /\ callTime' = now
       /\ history' = <<>>
       /\ delays' = <<>>
       /\ IF symbols = <<>> \/ ~apiKey
            THEN /\ io = "none"
                 /\ ThrowLastError(NewError(IF symbols = <<>> THEN "argument" ELSE "config"))
                 /\ newsFrom' = "none"
                 /\ UNCHANGED <<maxRetries, baseDelay, attempt, lastError, result>>
                 /\ UNCHANGED <<files, ops, lastOp>>
            ELSE /\ getCached(getCacheKey(symbols, hours), io)
                 /\ IF lastOp'.ret.hit
                      THEN \* if (cached) return cached
                           /\ rpc' = "returned"
                           /\ result' = lastOp'.ret.data
                           /\ newsFrom' = "cache"
                           /\ UNCHANGED <<maxRetries, baseDelay, attempt, lastError, thrown>>
                      ELSE LET r == ParseIntOrDefault(env.MAX_RETRIES, DEFAULT_MAX_RETRIES)
                               d == ParseIntOrDefault(env.RETRY_DELAY_MS, DEFAULT_RETRY_DELAY_MS)
                           IN /\ maxRetries' = r
                              /\ baseDelay' = d.val
                              /\ attempt' = 0
                              /\ lastError' = Undefined
                              /\ newsFrom' = "none"
                              /\ result' = result
                              /\ IF JsLeq(0, r)
                                   THEN rpc' = "attempting" /\ thrown' = thrown
                                   ELSE ThrowLastError(Undefined)
  /\ UNCHANGED <<adapter, env, delivered, apiKey>>
  /\ UNCHANGED <<cacheEnabled, envTtl, dirExists, now, ticks>>
  /\ UNCHANGED <<concVars, pipeVars, llmVars, corrVars, fmtVars, sumVars, factVars, keyVars>>

\* The awaited performFetch settles.  On success fetchWithRetry returns and
\* fetchNews stores the list in the cache and returns it; on rejection the
\* catch block runs up to its throw, its sleep, or the end of the loop.
NewsAttemptSettles ==
  /\ adapter = "news"
  /\ rpc = "attempting"
  /\ coinSymbols # <<>>
  /\ \E resp \in NewsResponses(now), io \in {"none", "mkdir", "open", "write"} :
       LET out == performFetch(resp, hoursBack, now) IN
       /\ history' = Append(history, out)
       /\ IF out.ok
            THEN /\ \E written \in IF io = "write" THEN 0..(Len(out.value) + 1) ELSE {0} :
                      setCached(getCacheKey(coinSymbols, hoursBack), out.value, 0, io, written)
                 /\ rpc' = "returned"
                 /\ result' = out.value
                 /\ newsFrom' = "network"
                 /\ UNCHANGED <<lastError, thrown, delays, attempt>>
            ELSE /\ io = "none"
                 /\ lastError' = out.err
                 /\ UNCHANGED <<result, newsFrom, files, dirExists, ops, lastOp>>
                 /\ IF IsClientErrorAxios(out.err)
                      THEN /\ ThrowLastError(out.err)
                           /\ UNCHANGED <<delays, attempt>>
                      ELSE IF JsLt(attempt, maxRetries)
                        THEN /\ delays' = Append(delays, BackoffDelay(baseDelay, attempt))
                             /\ rpc' = "sleeping"
                             /\ UNCHANGED <<thrown, attempt>>
                        ELSE /\ attempt' = attempt + 1
                             /\ ThrowLastError(out.err)
                             /\ delays' = delays
  /\ UNCHANGED <<adapter, env, maxRetries, baseDelay, delivered>>
  /\ UNCHANGED <<cacheEnabled, envTtl, now, ticks>>
  /\ UNCHANGED <<apiKey, coinSymbols, hoursBack, callTime>>
  /\ UNCHANGED <<concVars, pipeVars, llmVars, corrVars, fmtVars, sumVars, factVars, keyVars>>

\* An hour passes.
NewsTick ==
  /\ ticks < MaxTicks
  /\ ops < MaxOps
  /\ ticks' = ticks + 1
  /\ now' = now + MsPerHour
  /\ UNCHANGED <<cacheEnabled, envTtl, dirExists, files, ops, lastOp>>
  /\ UNCHANGED <<retryVars, concVars, newsVars, pipeVars, llmVars, corrVars, fmtVars, sumVars, factVars, keyVars>>

NextNews ==
  \/ FetchNews
  \/ NewsAttemptSettles
  \/ SleepDone
  \/ NewsTick

----------------------------------------------------------------------------
(* Start-up (index.js: loadEnv(); scheduleDailyJob()), the cron trigger    *)
(* and runDailyPipeline.  A run is at the adapter call it awaits; the code *)
(* between two awaits runs with the action that settles the first.         *)

MaxRuns == 2

\* the required settings start-up may find unset, the forms of SMTP_PORT
\* and whether CRON_SCHEDULE is a valid cron expression
RequiredSample == {"COINGECKO_API_KEY", "CRYPTOPANIC_API_KEY", "OPENAI_API_KEY", "SMTP_PORT"}
Configs ==
  [missing : SUBSET RequiredSample,
   smtpPort : {"587", "abc", "70000"},
   cronValid : BOOLEAN]

\* a pipeline run: the call it awaits (or "done" / "failed"), the adapter
\* calls and returns so far, the network attempts made so far, and for a
\* failed run the step that raised and the kind of the error
Run(pc, events, net, failedAt, errorKind) ==
  [pc |-> pc, events |-> events, net |-> net, failedAt |-> failedAt, errorKind |-> errorKind]

Call(a) == [adapter |-> a, ev |-> "call"]
Return(a) == [adapter |-> a, ev |-> "return"]
Reject(a) == [adapter |-> a, ev |-> "reject"]

InitPipeline ==
  /\ config \in Configs
  /\ booted = "no"
  /\ runs = <<>>
  /\ newsCached = FALSE
  \* the adapters' internals are not part of this specification
  /\ adapter = "news"
  /\ env = [MAX_RETRIES |-> EnvUnset, RETRY_DELAY_MS |-> EnvUnset]
  /\ maxRetries = Num(0)
  /\ baseDelay = 0
  /\ attempt = 0
  /\ lastError = Undefined
  /\ rpc = "idle"
  /\ history = <<>>
  /\ delays = <<>>
  /\ thrown = NoError
  /\ result = 0
  /\ delivered = 0
  /\ cacheEnabled = TRUE
  /\ envTtl = [kind |-> "unset", val |-> 0]
  /\ dirExists = FALSE
  /\ files = <<>>
  /\ now = 0
  /\ ticks = 0
  /\ ops = 0
  /\ lastOp = <<>>
  /\ inodes = <<>>
  /\ link = 0
  /\ oldEntry = <<>>
  /\ newData = <<>>
  /\ wpc = "done"
  /\ wfd = 0
  /\ wtext = <<>>
  /\ rdpc = "done"
  /\ rfd = 0
  /\ rsize = 0
  /\ rbuf = <<>>
  /\ rret = <<>>
  /\ apiKey = FALSE
  /\ coinSymbols = <<>>
  /\ hoursBack = 0
  /\ callTime = 0
  /\ newsFrom = "none"
  \* no reply is being checked and nothing is being correlated
  /\ parsedResponse = [type |-> "undefined", items |-> <<>>]
  /\ expectedCoins = <<>>
  /\ generation = [pc |-> "idle", value |-> <<>>, warned |-> FALSE, message |-> "",
                   index |-> 0]
  /\ marketData = <<>>
  /\ newsData = <<>>
  /\ correlations = [pc |-> "idle", value |-> <<>>]
  \* nothing is being formatted, summarized or constructed
  /\ amountArg = [isNull |-> TRUE, negative |-> FALSE, billions |-> 0, units |-> 0,
                  cents |-> 0]
  /\ formatted = <<>>
  /\ summarizeArg = [type |-> "undefined", items |-> <<>>]
  /\ summarizing = [pc |-> "idle", value |-> <<>>]
  /\ prompt = <<>>
  /\ llmCalls = <<>>
  /\ factoryConfig = <<>>
  /\ adapters = <<>>
  /\ keyRequests = <<>>
  /\ cacheKeys = <<>>

\* env.js loadEnv: every required variable must be set (non-empty)
loadEnv(cfg) == cfg.missing = {}

\* mockSMTP.js validateConfig: the variables are set and SMTP_PORT is a
\* number from 1 to 65535
validateConfig(cfg) == "SMTP_PORT" \notin cfg.missing /\ cfg.smtpPort = "587"

\* index.js: loadEnv(); scheduleDailyJob().  Either throws and the process
\* ends before anything is scheduled.
LoadEnv ==
  /\ booted = "no"
  /\ booted' = IF loadEnv(config) /\ config.cronValid THEN "scheduled" ELSE "exit"
  /\ UNCHANGED <<config, runs, newsCached>>
  /\ UNCHANGED <<retryVars, cacheVars, concVars, newsVars, llmVars, corrVars, fmtVars, sumVars, factVars, keyVars>>

\* a variant that starts with the news call and skips the market data
RunDailyPipeline_NewsFirst ==
  /\ booted = "scheduled"
  /\ Len(runs) < MaxRuns
  /\ runs' = Append(runs, Run("news", <<Call("news")>>, 0, "", ""))
  /\ UNCHANGED <<config, booted, newsCached>>
  /\ UNCHANGED <<retryVars, cacheVars, concVars, newsVars, llmVars, corrVars, fmtVars, sumVars, factVars, keyVars>>

\* The cron trigger fires: runDailyPipeline up to `await adapters.marketData`
RunDailyPipeline ==
  /\ booted = "scheduled"
  /\ Len(runs) < MaxRuns
  /\ runs' = Append(runs, Run("marketData", <<Call("marketData")>>, 0, "", ""))
  /\ UNCHANGED <<config, booted, newsCached>>
  /\ UNCHANGED <<retryVars, cacheVars, concVars, newsVars, llmVars, corrVars, fmtVars, sumVars, factVars, keyVars>>

\* a variant in which a failing run still hands a newsletter to the mailer
Fails_SendsPartial(run, at, kind, net, events) ==
  Run("failed", Append(events, [adapter |-> "mailer", ev |-> "call"]), net, at, kind)

\* the run fails at step `at` with an error of kind `kind`: catch, log, rethrow
Fails(run, at, kind, net, events) == Run("failed", events, net, at, kind)

\* What an adapter call can settle with: a result after a network attempt,
\* an error after at least one network attempt, or, when its own check of
\* the settings fails, a configuration error before any attempt.
AdapterSettles(keyName) ==
  {"ok", "error"} \cup (IF keyName \in config.missing THEN {"config"} ELSE {})

\* adapters.marketData settles; on success the run logs the coins (which
\* throws on a coin without a price or a change) and calls adapters.news
MarketDataSettles ==
  \E r \in 1..Len(runs) :
    /\ runs[r].pc = "marketData"
    /\ \E how \in AdapterSettles("COINGECKO_API_KEY"), coins \in {"coins", "nullfields"} :
         LET run == runs[r]
             net == run.net + (IF how = "config" THEN 0 ELSE 1)
         IN runs' = [runs EXCEPT ![r] =
              IF how # "ok"
                THEN Fails(run, "marketData", how, net, Append(run.events, Reject("marketData")))
              ELSE IF coins = "nullfields"
                THEN Fails(run, "log", "type", net, Append(run.events, Return("marketData")))
              ELSE Run("news", run.events \o <<Return("marketData"), Call("news")>>, net, "", "")]
    /\ UNCHANGED <<config, booted, newsCached>>
    /\ UNCHANGED <<retryVars, cacheVars, concVars, newsVars, llmVars, corrVars, fmtVars, sumVars, factVars, keyVars>>

\* adapters.news settles (from the cache without a network attempt when it
\* holds an entry); on success correlateData runs and generateSummaries
\* calls adapters.llm
NewsSettles ==
  \E r \in 1..Len(runs) :
    /\ runs[r].pc = "news"
    /\ \E how \in AdapterSettles("CRYPTOPANIC_API_KEY") :
         LET run == runs[r]
             fromCache == how = "ok" /\ newsCached
             net == run.net + (IF how = "config" \/ fromCache THEN 0 ELSE 1)
         IN /\ runs' = [runs EXCEPT ![r] =
                 IF how # "ok"
                   THEN Fails(run, "news", how, net, Append(run.events, Reject("news")))
                 ELSE Run("llm", run.events \o <<Return("news"), Call("llm")>>, net, "", "")]
            /\ newsCached' = (newsCached \/ how = "ok")
    /\ UNCHANGED <<config, booted>>
    /\ UNCHANGED <<retryVars, cacheVars, concVars, newsVars, llmVars, corrVars, fmtVars, sumVars, factVars, keyVars>>

\* adapters.llm settles; on success the summaries are stamped, the
\* newsletter is compiled (which may throw) and adapters.mailer is called
LlmSettles ==
  \E r \in 1..Len(runs) :
    /\ runs[r].pc = "llm"
    /\ \E how \in AdapterSettles("OPENAI_API_KEY"), compiles \in BOOLEAN :
         LET run == runs[r]
             net == run.net + (IF how = "config" THEN 0 ELSE 1)
         IN runs' = [runs EXCEPT ![r] =
              IF how # "ok"
                THEN Fails(run, "llm", how, net, Append(run.events, Reject("llm")))
              ELSE IF ~compiles
                THEN Fails(run, "compile", "template", net, Append(run.events, Return("llm")))
              ELSE Run("mailer", run.events \o <<Return("llm"), Call("mailer")>>, net, "", "")]
    /\ UNCHANGED <<config, booted, newsCached>>
    /\ UNCHANGED <<retryVars, cacheVars, concVars, newsVars, llmVars, corrVars, fmtVars, sumVars, factVars, keyVars>>

\* adapters.mailer settles: sendNewsletter runs validateConfig first
MailerSettles ==
  \E r \in 1..Len(runs) :
    /\ runs[r].pc = "mailer"
    /\ \E how \in {"ok", "error", "config"} :
         LET run == runs[r] IN
         /\ (how = "config") = ~validateConfig(config)
         /\ runs' = [runs EXCEPT ![r] =
              IF how = "config"
                THEN Fails(run, "mailer", "config", run.net, Append(run.events, Reject("mailer")))
              ELSE IF how = "error"
                THEN Fails(run, "mailer", "error", run.net + 1, Append(run.events, Reject("mailer")))
              ELSE Run("done", Append(run.events, Return("mailer")), run.net + 1, "", "")]
    /\ UNCHANGED <<config, booted, newsCached>>
    /\ UNCHANGED <<retryVars, cacheVars, concVars, newsVars, llmVars, corrVars, fmtVars, sumVars, factVars, keyVars>>

NextPipeline ==
  \/ LoadEnv
  \/ RunDailyPipeline
  \/ MarketDataSettles
  \/ NewsSettles
  \/ LlmSettles
  \/ MailerSettles

-----------------------------------------------------------------------------
(* The checks performGeneration makes on the parsed reply of the LLM        *)
(* (adapters/openai.js): the summaries array, then validateResponse.  A    *)
(* JavaScript value is a record of its type and text; the summaries        *)
(* property is a record of its type and, for an array, its entries.        *)

MaxSummaries == 2

JsUndefined == [type |-> "undefined", val |-> ""]
JsString(s) == [type |-> "string", val |-> s]

\* !v
Falsy(v) == v.type = "undefined" \/ (v.type = "string" /\ v.val = "")

\* One entry of the summaries array: each property absent, "" or a text.
SummaryEntries ==
  [coin : {JsUndefined, JsString(""), JsString("bitcoin")},
   symbol : {JsUndefined, JsString(""), JsString("BTC"), JsString("ETH")},
   summary : {JsUndefined, JsString(""), JsString("Bitcoin rose 5.2%")}]

SummaryLists == UNION { [1..n -> SummaryEntries] : n \in 0..MaxSummaries }

\* parsedResponse.summaries: absent, null, "", a text, an object that is no
\* array, or an array of entries
ParsedResponses ==
  [type : {"array"}, items : SummaryLists]
    \cup [type : {"undefined", "null", "emptystring", "string", "object"}, items : {<<>>}]

ExpectedCoinLists == { <<>>, <<"BTC">>, <<"BTC", "ETH">> }

\* !parsedResponse.summaries || !Array.isArray(parsedResponse.summaries)
NoSummariesArray(parsed) ==
  \/ parsed.type \in {"undefined", "null", "emptystring"}
  \/ parsed.type # "array"

\* summaries.map((s) => s.symbol)
returnedCoins(summaries) == [i \in 1..Len(summaries) |-> summaries[i].symbol]

\* expectedCoins.filter((coin) => !returnedCoins.includes(coin))
missing(summaries, expected) ==
  SelectSeq(expected,
            LAMBDA coin : \A i \in 1..Len(summaries) :
                            returnedCoins(summaries)[i] # JsString(coin))

\* !summary.coin || !summary.symbol || !summary.summary
MissingRequiredFields(summary) ==
  Falsy(summary.coin) \/ Falsy(summary.symbol) \/ Falsy(summary.summary)

Generation(pc, value, warned, message, index) ==
  [pc |-> pc, value |-> value, warned |-> warned, message |-> message, index |-> index]

\* variant: a reply that lacks an expected coin is an error
validateResponse_MissingCoinThrows(summaries, expected) ==
  LET bad == { i \in 1..Len(summaries) : MissingRequiredFields(summaries[i]) }
      first == CHOOSE i \in bad : \A j \in bad : i <= j
  IN IF Len(missing(summaries, expected)) > 0
       THEN Generation("thrown", <<>>, FALSE, "missing summaries for expected coins", 0)
     ELSE IF bad # {}
       THEN Generation("thrown", <<>>, FALSE, "Summary is missing required fields", first - 1)
     ELSE Generation("returned", summaries, FALSE, "", 0)

\* validateResponse(summaries, expectedCoins): warns about the expected coins
\* without a summary, then throws at the first entry with a falsy property.
validateResponse(summaries, expected) ==
  LET warned == Len(missing(summaries, expected)) > 0
      bad == { i \in 1..Len(summaries) : MissingRequiredFields(summaries[i]) }
      first == CHOOSE i \in bad : \A j \in bad : i <= j
  IN IF bad # {}
       THEN Generation("thrown", <<>>, warned, "Summary is missing required fields", first - 1)
       ELSE Generation("returned", summaries, warned, "", 0)

InitValidate ==
  /\ parsedResponse \in ParsedResponses
  /\ expectedCoins \in ExpectedCoinLists
  /\ generation = Generation("parsed", <<>>, FALSE, "", 0)
  /\ marketData = <<>>
  /\ newsData = <<>>
  /\ correlations = [pc |-> "idle", value |-> <<>>]
  \* the other parts of the program are not part of this specification
  /\ adapter = "llm"
  /\ env = [MAX_RETRIES |-> EnvUnset, RETRY_DELAY_MS |-> EnvUnset]
  /\ maxRetries = Num(0)
  /\ baseDelay = 0
  /\ attempt = 0
  /\ lastError = Undefined
  /\ rpc = "idle"
  /\ history = <<>>
  /\ delays = <<>>
  /\ thrown = NoError
  /\ result = 0
  /\ delivered = 0
  /\ cacheEnabled = TRUE
  /\ envTtl = [kind |-> "unset", val |-> 0]
  /\ dirExists = FALSE
  /\ files = <<>>
  /\ now = 0
  /\ ticks = 0
  /\ ops = 0
  /\ lastOp = <<>>
  /\ inodes = <<>>
  /\ link = 0
  /\ oldEntry = <<>>
  /\ newData = <<>>
  /\ wpc = "done"
  /\ wfd = 0
  /\ wtext = <<>>
  /\ rdpc = "done"
  /\ rfd = 0
  /\ rsize = 0
  /\ rbuf = <<>>
  /\ rret = <<>>
  /\ apiKey = FALSE
  /\ coinSymbols = <<>>
  /\ hoursBack = 0
  /\ callTime = 0
  /\ newsFrom = "none"
  /\ config = <<>>
  /\ booted = "no"
  /\ runs = <<>>
  /\ newsCached = FALSE
  \* nothing is being formatted, summarized or constructed
  /\ amountArg = [isNull |-> TRUE, negative |-> FALSE, billions |-> 0, units |-> 0,
                  cents |-> 0]
  /\ formatted = <<>>
  /\ summarizeArg = [type |-> "undefined", items |-> <<>>]
  /\ summarizing = [pc |-> "idle", value |-> <<>>]
  /\ prompt = <<>>
  /\ llmCalls = <<>>
  /\ factoryConfig = <<>>
  /\ adapters = <<>>
  /\ keyRequests = <<>>
  /\ cacheKeys = <<>>

\* performGeneration from the check of the summaries array to its return
CheckParsedResponse ==
  /\ generation.pc = "parsed"
  /\ generation' =
       IF NoSummariesArray(parsedResponse)
         THEN Generation("thrown", <<>>, FALSE, "OpenAI response missing 'summaries' array", 0)
         ELSE validateResponse(parsedResponse.items, expectedCoins)
  /\ UNCHANGED <<parsedResponse, expectedCoins>>
  /\ UNCHANGED <<retryVars, cacheVars, concVars, newsVars, pipeVars, corrVars, fmtVars, sumVars, factVars, keyVars>>

NextValidate == CheckParsedResponse

-----------------------------------------------------------------------------
(* The correlation engine (engine/correlate.js), a pure function.  A       *)
(* percentage is a whole number of hundredths of a percent (520 is 5.20%), *)
(* an amount a whole number of dollars, a publication time a whole number. *)

MaxCoins == 2
MaxNews == 2

\* An amount of dollars: null / undefined, or a number.  TLC's integers end
\* at 2^31 - 1, so a number is held as its sign, its billions, its dollars
\* below a billion and its cents.
Amount(billions, units, cents) ==
  [isNull |-> FALSE, negative |-> FALSE, billions |-> billions, units |-> units,
   cents |-> cents]
NullAmount == [isNull |-> TRUE, negative |-> FALSE, billions |-> 0, units |-> 0, cents |-> 0]
Negative(amount) == [amount EXCEPT !.negative = TRUE]

\* The snapshots the market-data adapter makes (transformCoinData).
Snapshot(id, symbol, name, price, pct, volume, cap) ==
  [id |-> id, symbol |-> symbol, name |-> name, currentPrice |-> price,
   priceChange24h |-> (price * pct) \div 10000,
   priceChangePercentage24h |-> pct,
   volume24h |-> volume, marketCap |-> cap]

PercentChanges == {-520, 0, 1}

Snapshots ==
  { Snapshot("bitcoin", "BTC", "Bitcoin", 45000, pct,
             Amount(28, 0, 0), Amount(850, 0, 0)) : pct \in PercentChanges }
    \cup { Snapshot("ethereum", "ETH", "Ethereum", 2500, pct,
                    Amount(0, 999999999, 0), NullAmount) : pct \in PercentChanges }

\* The news items the news adapter makes (transformNewsItem).
NewsItems ==
  [title : {"ETF inflows"},
   description : {JsUndefined, JsString("text")},
   source : {"CoinDesk"},
   publishedAt : {1, 2},
   currencies : {<<>>, <<"BTC">>, <<"ETH", "BTC">>}]

SnapshotLists == UNION { [1..n -> Snapshots] : n \in 0..MaxCoins }

\* Longer news lists, long enough for .slice(0, 5) to cut: item i has the
\* title of its position and is one of three kinds.
MaxLongNews == 6
TitleAt(i) == <<"n1", "n2", "n3", "n4", "n5", "n6", "n7", "n8">>[i]
LongNewsKinds ==
  { [publishedAt |-> 1, currencies |-> <<"BTC">>],
    [publishedAt |-> 2, currencies |-> <<"BTC">>],
    [publishedAt |-> 2, currencies |-> <<"ETH">>] }
LongNewsLists ==
  { [i \in 1..MaxLongNews |->
       [title |-> TitleAt(i), description |-> JsString("text"), source |-> "CoinDesk",
        publishedAt |-> kinds[i].publishedAt, currencies |-> kinds[i].currencies]] :
    kinds \in [1..MaxLongNews -> LongNewsKinds] }

NewsLists == UNION { [1..n -> NewsItems] : n \in 0..MaxNews } \cup LongNewsLists

\* An argument of correlateData: an array, or a value that is no array.
MarketArguments ==
  [type : {"array"}, items : SnapshotLists]
    \cup [type : {"undefined", "object"}, items : {<<>>}]
NewsArguments ==
  [type : {"array"}, items : NewsLists]
    \cup [type : {"undefined", "object"}, items : {<<>>}]

\* variant: zero counts as a rise
determineDirection_ZeroUp(percentChange) ==
  IF percentChange >= 0 THEN "up" ELSE "down"

determineDirection(percentChange) ==
  IF percentChange > 0 THEN "up" ELSE "down"

determineExplanationBasis(newsCount) ==
  IF newsCount >= 2 THEN "news"
  ELSE IF newsCount = 1 THEN "both"
  ELSE "signals"

\* `${sign}${value.toFixed(2)}%`: the sign, the hundredths, the percent sign
formatPercentage(value) ==
  <<IF value >= 0 THEN "+" ELSE "", value, "%">>

\* (tenths / 10).toFixed(1) of a non-negative number of tenths
Fixed1(tenths) ==
  DecimalString(tenths \div 10) \o <<".", Digit(tenths % 10)>>

\* the number of tenths of `unit` nearest to the magnitude of the amount;
\* exactly between two, the larger (the quotients of the amounts used here
\* that lie exactly between two are binary fractions such as 1.25, which
\* the division gives exactly)
ScaledTenths(amount, unit) ==
  LET step == unit \div 10
      whole == IF unit = 1000000000 THEN amount.billions * 10 ELSE 0
      q == whole + amount.units \div step
      r == amount.units % step
  IN IF 2 * r >= step THEN q + 1 ELSE q

\* the "-" toFixed puts before the digits of a negative number
MinusSign(amount) == IF amount.negative THEN <<"-">> ELSE <<>>

\* variant: an amount of exactly 1e6 is not yet shown in millions
formatCurrency_StrictMillion(amount) ==
  IF amount.isNull THEN <<"$", "0">>
  ELSE IF amount.billions >= 1
    THEN <<"$">> \o MinusSign(amount) \o Fixed1(ScaledTenths(amount, 1000000000)) \o <<"B">>
  ELSE IF amount.units > 1000000
    THEN <<"$">> \o MinusSign(amount) \o Fixed1(ScaledTenths(amount, 1000000)) \o <<"M">>
  ELSE IF amount.units >= 1000
    THEN <<"$">> \o MinusSign(amount) \o Fixed1(ScaledTenths(amount, 1000)) \o <<"K">>
  ELSE <<"$">> \o MinusSign(amount) \o DecimalString(amount.units)
         \o <<".", Digit(amount.cents \div 10), Digit(amount.cents % 10)>>

\* formatCurrency(amount): "$0" for null / undefined, else by Math.abs(amount)
\* `$${(amount / 1e9).toFixed(1)}B`, `...M`, `...K` or `$${amount.toFixed(2)}`
formatCurrency(amount) ==
  IF amount.isNull THEN <<"$", "0">>
  ELSE IF amount.billions >= 1
    THEN <<"$">> \o MinusSign(amount) \o Fixed1(ScaledTenths(amount, 1000000000)) \o <<"B">>
  ELSE IF amount.units >= 1000000
    THEN <<"$">> \o MinusSign(amount) \o Fixed1(ScaledTenths(amount, 1000000)) \o <<"M">>
  ELSE IF amount.units >= 1000
    THEN <<"$">> \o MinusSign(amount) \o Fixed1(ScaledTenths(amount, 1000)) \o <<"K">>
  ELSE <<"$">> \o MinusSign(amount) \o DecimalString(amount.units)
         \o <<".", Digit(amount.cents \div 10), Digit(amount.cents % 10)>>

generateFallbackSignals(coin) ==
  << [sentence |-> "Price",
      word |-> IF coin.priceChangePercentage24h >= 0 THEN "increased" ELSE "decreased",
      amount |-> formatPercentage(coin.priceChangePercentage24h)],
     [sentence |-> "24h trading volume", word |-> "",
      amount |-> formatCurrency(coin.volume24h)],
     [sentence |-> "Market cap", word |-> "",
      amount |-> formatCurrency(coin.marketCap)] >>

formatNewsItem(news) ==
  [title |-> news.title,
   description |-> IF Falsy(news.description) THEN JsString("") ELSE news.description,
   source |-> news.source,
   publishedAt |-> news.publishedAt]

\* news.currencies.includes(symbol)
Includes(currencies, symbol) == \E i \in 1..Len(currencies) : currencies[i] = symbol

\* variant: an item goes before the items of the same time
InsertByDateDesc_TiesReversed(sorted, item) ==
  LET before == { i \in 1..Len(sorted) : sorted[i].publishedAt > item.publishedAt }
      k == Cardinality(before)
  IN SubSeq(sorted, 1, k) \o <<item>> \o SubSeq(sorted, k + 1, Len(sorted))

\* .sort((a, b) => new Date(b.publishedAt) - new Date(a.publishedAt)):
\* most recent first; the sort is stable
InsertByDateDesc(sorted, item) ==
  LET before == { i \in 1..Len(sorted) : sorted[i].publishedAt >= item.publishedAt }
      k == Cardinality(before)
  IN SubSeq(sorted, 1, k) \o <<item>> \o SubSeq(sorted, k + 1, Len(sorted))

RECURSIVE SortByDateDesc(_)
SortByDateDesc(list) ==
  IF list = <<>> THEN <<>>
  ELSE InsertByDateDesc(SortByDateDesc(SubSeq(list, 1, Len(list) - 1)), list[Len(list)])

\* variant: only the most recent item is kept
Slice5_One(list) == SubSeq(list, 1, IF Len(list) < 1 THEN Len(list) ELSE 1)

\* .slice(0, 5)
Slice5(list) == SubSeq(list, 1, IF Len(list) < 5 THEN Len(list) ELSE 5)

\* variant: the record carries the symbol in lower case
correlateCoin_LowerSymbol(coin, allNews) ==
  LET matching == SelectSeq(allNews, LAMBDA news : Includes(news.currencies, coin.symbol))
      top == Slice5(SortByDateDesc(matching))
      relevantNews == [i \in 1..Len(top) |-> formatNewsItem(top[i])]
  IN [coin |-> coin.id,
      symbol |-> IF coin.symbol = "BTC" THEN "btc" ELSE "eth",
      name |-> coin.name,
      currentPrice |-> coin.currentPrice,
      priceChange24h |-> coin.priceChange24h,
      priceChangePercentage24h |-> coin.priceChangePercentage24h,
      direction |-> determineDirection(coin.priceChangePercentage24h),
      volume24h |-> coin.volume24h,
      marketCap |-> coin.marketCap,
      relevantNews |-> relevantNews,
      fallbackSignals |-> generateFallbackSignals(coin),
      explanationBasis |-> determineExplanationBasis(Len(relevantNews))]

\* variant: a record explained by news alone carries no signals
correlateCoin_NoSignalsWithNews(coin, allNews) ==
  LET matching == SelectSeq(allNews, LAMBDA news : Includes(news.currencies, coin.symbol))
      top == Slice5(SortByDateDesc(matching))
      relevantNews == [i \in 1..Len(top) |-> formatNewsItem(top[i])]
      explanationBasis == determineExplanationBasis(Len(relevantNews))
  IN [coin |-> coin.id,
      symbol |-> coin.symbol,
      name |-> coin.name,
      currentPrice |-> coin.currentPrice,
      priceChange24h |-> coin.priceChange24h,
      priceChangePercentage24h |-> coin.priceChangePercentage24h,
      direction |-> determineDirection(coin.priceChangePercentage24h),
      volume24h |-> coin.volume24h,
      marketCap |-> coin.marketCap,
      relevantNews |-> relevantNews,
      fallbackSignals |-> IF explanationBasis = "news" THEN <<>>
                          ELSE generateFallbackSignals(coin),
      explanationBasis |-> explanationBasis]

correlateCoin(coin, allNews) ==
  LET matching == SelectSeq(allNews, LAMBDA news : Includes(news.currencies, coin.symbol))
      top == Slice5(SortByDateDesc(matching))
      relevantNews == [i \in 1..Len(top) |-> formatNewsItem(top[i])]
  IN [coin |-> coin.id,
      symbol |-> coin.symbol,
      name |-> coin.name,
      currentPrice |-> coin.currentPrice,
      priceChange24h |-> coin.priceChange24h,
      priceChangePercentage24h |-> coin.priceChangePercentage24h,
      direction |-> determineDirection(coin.priceChangePercentage24h),
      volume24h |-> coin.volume24h,
      marketCap |-> coin.marketCap,
      relevantNews |-> relevantNews,
      fallbackSignals |-> generateFallbackSignals(coin),
      explanationBasis |-> determineExplanationBasis(Len(relevantNews))]

\* what a call of correlateData gave: pc is "called", "returned" or "thrown"
Correlations(pc, value) == [pc |-> pc, value |-> value]

\* variant: only the market data is checked
correlateData_NewsUnchecked(market, news) ==
  IF market.type # "array"
    THEN Correlations("thrown", <<>>)
    ELSE Correlations("returned",
                      [i \in 1..Len(market.items) |-> correlateCoin(market.items[i], news.items)])

correlateData(market, news) ==
  IF market.type # "array" \/ news.type # "array"
    THEN Correlations("thrown", <<>>)
    ELSE Correlations("returned",
                      [i \in 1..Len(market.items) |-> correlateCoin(market.items[i], news.items)])

InitCorrelate ==
  /\ marketData \in MarketArguments
  /\ newsData \in NewsArguments
  /\ correlations = Correlations("called", <<>>)
  /\ parsedResponse = [type |-> "undefined", items |-> <<>>]
  /\ expectedCoins = <<>>
  /\ generation = Generation("idle", <<>>, FALSE, "", 0)
  \* the other parts of the program are not part of this specification
  /\ adapter = "llm"
  /\ env = [MAX_RETRIES |-> EnvUnset, RETRY_DELAY_MS |-> EnvUnset]
  /\ maxRetries = Num(0)
  /\ baseDelay = 0
  /\ attempt = 0
  /\ lastError = Undefined
  /\ rpc = "idle"
  /\ history = <<>>
  /\ delays = <<>>
  /\ thrown = NoError
  /\ result = 0
  /\ delivered = 0
  /\ cacheEnabled = TRUE
  /\ envTtl = [kind |-> "unset", val |-> 0]
  /\ dirExists = FALSE
  /\ files = <<>>
  /\ now = 0
  /\ ticks = 0
  /\ ops = 0
  /\ lastOp = <<>>
  /\ inodes = <<>>
  /\ link = 0
  /\ oldEntry = <<>>
  /\ newData = <<>>
  /\ wpc = "done"
  /\ wfd = 0
  /\ wtext = <<>>
  /\ rdpc = "done"
  /\ rfd = 0
  /\ rsize = 0
  /\ rbuf = <<>>
  /\ rret = <<>>
  /\ apiKey = FALSE
  /\ coinSymbols = <<>>
  /\ hoursBack = 0
  /\ callTime = 0
  /\ newsFrom = "none"
  /\ config = <<>>
  /\ booted = "no"
  /\ runs = <<>>
  /\ newsCached = FALSE
  \* nothing is being formatted, summarized or constructed
  /\ amountArg = [isNull |-> TRUE, negative |-> FALSE, billions |-> 0, units |-> 0,
                  cents |-> 0]
  /\ formatted = <<>>
  /\ summarizeArg = [type |-> "undefined", items |-> <<>>]
  /\ summarizing = [pc |-> "idle", value |-> <<>>]
  /\ prompt = <<>>
  /\ llmCalls = <<>>
  /\ factoryConfig = <<>>
  /\ adapters = <<>>
  /\ keyRequests = <<>>
  /\ cacheKeys = <<>>

CorrelateData ==
  /\ correlations.pc = "called"
  /\ correlations' = correlateData(marketData, newsData)
  /\ UNCHANGED <<marketData, newsData>>
  /\ UNCHANGED <<retryVars, cacheVars, concVars, newsVars, pipeVars, llmVars, fmtVars, sumVars, factVars, keyVars>>

NextCorrelate == CorrelateData

-----------------------------------------------------------------------------
(* formatCurrency (engine/correlate.js) on its own: the amounts are the    *)
(* sums of a number of billions, a number of dollars below a billion and a *)
(* number of cents, of either sign, and null.                              *)

AmountSamples ==
  LET positive == { Amount(b, u, c) :
                      b \in {0, 1, 28, 850, 1500},
                      u \in {0, 999, 1000, 1500, 999949, 999999, 1000000, 85500000,
                             250000000, 999999999},
                      c \in {0, 99} }
  IN {NullAmount} \cup positive
       \cup { Negative(a) : a \in positive \ {Amount(0, 0, 0)} }

InitFormat ==
  /\ amountArg \in AmountSamples
  /\ formatted = <<>>
  \* the other parts of the program are not part of this specification
  /\ parsedResponse = [type |-> "undefined", items |-> <<>>]
  /\ expectedCoins = <<>>
  /\ generation = Generation("idle", <<>>, FALSE, "", 0)
  /\ marketData = <<>>
  /\ newsData = <<>>
  /\ correlations = [pc |-> "idle", value |-> <<>>]
  /\ adapter = "llm"
  /\ env = [MAX_RETRIES |-> EnvUnset, RETRY_DELAY_MS |-> EnvUnset]
  /\ maxRetries = Num(0)
  /\ baseDelay = 0
  /\ attempt = 0
  /\ lastError = Undefined
  /\ rpc = "idle"
  /\ history = <<>>
  /\ delays = <<>>
  /\ thrown = NoError
  /\ result = 0
  /\ delivered = 0
  /\ cacheEnabled = TRUE
  /\ envTtl = [kind |-> "unset", val |-> 0]
  /\ dirExists = FALSE
  /\ files = <<>>
  /\ now = 0
  /\ ticks = 0
  /\ ops = 0
  /\ lastOp = <<>>
  /\ inodes = <<>>
  /\ link = 0
  /\ oldEntry = <<>>
  /\ newData = <<>>
  /\ wpc = "done"
  /\ wfd = 0
  /\ wtext = <<>>
  /\ rdpc = "done"
  /\ rfd = 0
  /\ rsize = 0
  /\ rbuf = <<>>
  /\ rret = <<>>
  /\ apiKey = FALSE
  /\ coinSymbols = <<>>
  /\ hoursBack = 0
  /\ callTime = 0
  /\ newsFrom = "none"
  /\ config = <<>>
  /\ booted = "no"
  /\ runs = <<>>
  /\ newsCached = FALSE
  /\ summarizeArg = [type |-> "undefined", items |-> <<>>]
  /\ summarizing = [pc |-> "idle", value |-> <<>>]
  /\ prompt = <<>>
  /\ llmCalls = <<>>
  /\ factoryConfig = <<>>
  /\ adapters = <<>>
  /\ keyRequests = <<>>
  /\ cacheKeys = <<>>

FormatCurrency ==
  /\ formatted = <<>>
  /\ formatted' = formatCurrency(amountArg)
  /\ UNCHANGED amountArg
  /\ UNCHANGED <<retryVars, cacheVars, concVars, newsVars, pipeVars, llmVars, corrVars,
                 sumVars, factVars, keyVars>>

NextFormat == FormatCurrency

-----------------------------------------------------------------------------
(* The prompt builder (engine/prompts.js) and generateSummaries            *)
(* (engine/summarize.js).  A text is the sequence of its words and of the  *)
(* signs between them; two words that follow each other are one space      *)
(* apart.  A coin section is the sequence of its lines.                    *)

\* buildSystemInstructions()
buildSystemInstructions ==
  << "You", "are", "a", "crypto", "market", "analyst", "explaining", "price",
     "movements", "to", "newsletter", "subscribers", ".", "\n", "\n",
     "CRITICAL", "RULES", ":", "\n",
     "-", "Analyze", "ALL", "coins", "provided", "below", "\n",
     "-", "ONLY", "use", "the", "data", "provided", "for", "each", "coin", "\n",
     "-", "If", "data", "is", "insufficient", "for", "a", "coin", ",", "state", "\"",
          "Insufficient", "data", "to", "explain", "this", "movement", "\"", "\n",
     "-", "NEVER", "speculate", "about", "future", "price", "movements", "\n",
     "-", "NEVER", "give", "financial", "advice", "(", "buy", "/", "sell", "/", "hold",
          "recommendations", ")", "\n",
     "-", "NEVER", "predict", "what", "will", "happen", "next", "\n",
     "-", "Be", "concise", ":", "3", "-", "4", "sentences", "per", "coin", "maximum", "\n",
     "-", "Focus", "on", "facts", ":", "cite", "news", "sources", "when", "available", "\n",
     "-", "Return", "properly", "formatted", "JSON", "as", "specified" >>

\* the closing lines of the template of buildBatchPrompt
PromptReminder ==
  << "Remember", ":", "Only", "use", "the", "data", "provided", ".", "If", "data", "is",
     "insufficient", "for", "any", "coin", ",", "state", "\"", "Insufficient", "data",
     "to", "explain", "this", "movement", "\"", "in", "the", "summary", "." >>

\* The phrases of checkForForbiddenContent, matched without regard to case
\* and at word boundaries.
ForbiddenPhrases ==
  { <<"i", "predict">>, <<"you", "should">>,
    <<"will", "increase">>, <<"will", "decrease">>, <<"will", "rise">>, <<"will", "fall">>,
    <<"will", "go", "up">>, <<"will", "go", "down">>,
    <<"buy">>, <<"sell">>, <<"hold">>, <<"invest">>, <<"investment">>, <<"recommend">> }

\* word.toLowerCase(), for the words of the texts above
Lower(word) ==
  CASE word = "You" -> "you" [] word = "If" -> "if" [] word = "NEVER" -> "never"
    [] word = "ONLY" -> "only" [] word = "Only" -> "only" [] word = "ALL" -> "all"
    [] word = "CRITICAL" -> "critical" [] word = "RULES" -> "rules"
    [] word = "Analyze" -> "analyze" [] word = "Insufficient" -> "insufficient"
    [] word = "Be" -> "be" [] word = "Focus" -> "focus" [] word = "Return" -> "return"
    [] word = "JSON" -> "json" [] word = "Remember" -> "remember"
    [] OTHER -> word

\* text.includes(phrase): the phrase is in the text, case kept
IncludesPhrase(text, phrase) ==
  \E at \in 0..(Len(text) - Len(phrase)) :
    \A k \in 1..Len(phrase) : text[at + k] = phrase[k]

\* pattern.test(text) for the pattern of a forbidden phrase
PatternTest(phrase, text) ==
  \E at \in 0..(Len(text) - Len(phrase)) :
    \A k \in 1..Len(phrase) : Lower(text[at + k]) = phrase[k]

\* The correlation records generateSummaries is given: records correlateCoin
\* makes from three news lists.
SummarizeNewsLists ==
  { <<>>,
    << [title |-> "ETF inflows", description |-> JsUndefined, source |-> "CoinDesk",
        publishedAt |-> 1, currencies |-> <<"BTC">>] >>,
    << [title |-> "ETF inflows", description |-> JsString("text"), source |-> "CoinDesk",
        publishedAt |-> 1, currencies |-> <<"BTC">>],
       [title |-> "Network upgrade", description |-> JsUndefined, source |-> "Decrypt",
        publishedAt |-> 2, currencies |-> <<"ETH", "BTC">>] >> }

CorrelationRecords ==
  { correlateCoin(snapshot, news) : snapshot \in Snapshots, news \in SummarizeNewsLists }

\* the correlations argument: an array of records, or null, undefined or a text
SummarizeArguments ==
  [type : {"array"},
   items : UNION { [1..n -> CorrelationRecords] : n \in 0..MaxCoins }]
    \cup [type : {"undefined", "null", "string"}, items : {<<>>}]

Line(kind, text) == [kind |-> kind, text |-> text]

\* the lines of correlation.relevantNews.forEach((news, index) => ...) from
\* item `from` on
RECURSIVE NewsLines(_, _)
NewsLines(relevantNews, from) ==
  IF from > Len(relevantNews) THEN <<>>
  ELSE LET news == relevantNews[from]
       IN <<Line("newsItem", <<from, news.source, news.title>>)>>
            \o (IF Falsy(news.description) THEN <<>>
                ELSE <<Line("newsDescription", <<news.description.val>>)>>)
            \o NewsLines(relevantNews, from + 1)

\* variant: every section gets the Market Indicators block
formatCoinSection_AlwaysIndicators(correlation) ==
  LET direction == IF correlation.direction = "up" THEN "increased" ELSE "decreased"
      sign == IF correlation.priceChangePercentage24h >= 0 THEN "+" ELSE ""
      signals == correlation.fallbackSignals
  IN << Line("rule", <<"---">>),
        Line("coin", <<correlation.name, correlation.symbol>>),
        Line("movement", <<direction, sign, correlation.priceChangePercentage24h>>),
        Line("price", <<correlation.currentPrice>>) >>
       \o (IF Len(correlation.relevantNews) > 0
             THEN <<Line("blank", <<>>), Line("newsTitle", <<"Recent News:">>)>>
                    \o NewsLines(correlation.relevantNews, 1)
             ELSE <<>>)
       \o <<Line("blank", <<>>), Line("indicatorsTitle", <<"Market Indicators:">>)>>
       \o [k \in 1..Len(signals) |-> Line("indicator", <<"-", signals[k]>>)]
       \o <<Line("blank", <<>>)>>

\* formatCoinSection(correlation).  The price line holds the number that
\* toLocaleString() prints with the separators of the locale.
formatCoinSection(correlation) ==
  LET direction == IF correlation.direction = "up" THEN "increased" ELSE "decreased"
      sign == IF correlation.priceChangePercentage24h >= 0 THEN "+" ELSE ""
      signals == correlation.fallbackSignals
  IN << Line("rule", <<"---">>),
        Line("coin", <<correlation.name, correlation.symbol>>),
        Line("movement", <<direction, sign, correlation.priceChangePercentage24h>>),
        Line("price", <<correlation.currentPrice>>) >>
       \o (IF Len(correlation.relevantNews) > 0
             THEN <<Line("blank", <<>>), Line("newsTitle", <<"Recent News:">>)>>
                    \o NewsLines(correlation.relevantNews, 1)
             ELSE <<>>)
       \o (IF correlation.explanationBasis = "signals" \/ correlation.explanationBasis = "both"
             THEN <<Line("blank", <<>>), Line("indicatorsTitle", <<"Market Indicators:">>)>>
                    \o [k \in 1..Len(signals) |-> Line("indicator", <<"-", signals[k]>>)]
             ELSE <<>>)
       \o <<Line("blank", <<>>)>>

\* buildJsonSchema(correlations): the example entry of the first record and
\* the placeholder for the others
buildJsonSchema(items) ==
  [summaries |->
     << [coin |-> items[1].coin, symbol |-> items[1].symbol,
         summary |-> "Brief 3-4 sentence explanation based on provided data"],
        [coin |-> "...", symbol |-> "...", summary |-> "summaries for remaining coins"] >>]

\* buildFunctionSchema()
buildFunctionSchema ==
  [name |-> "generate_summaries",
   itemProperties |-> {"coin", "symbol", "summary"},
   itemRequired |-> {"coin", "symbol", "summary"},
   required |-> {"summaries"}]

\* what a call of buildBatchPrompt gave
Prompt(threw, instructions, sections, jsonSchema, reminder) ==
  [thrown |-> threw, instructions |-> instructions, sections |-> sections,
   jsonSchema |-> jsonSchema, reminder |-> reminder]

PromptError == Prompt(TRUE, <<>>, <<>>, <<>>, <<>>)

\* !Array.isArray(correlations) || correlations.length === 0
NotNonEmptyArray(arg) == arg.type # "array" \/ Len(arg.items) = 0

\* variant: an empty array gives a prompt without sections
buildBatchPrompt_AcceptsEmpty(arg) ==
  IF arg.type # "array" THEN PromptError
  ELSE Prompt(FALSE, buildSystemInstructions,
              [i \in 1..Len(arg.items) |-> formatCoinSection(arg.items[i])],
              <<>>, PromptReminder)

buildBatchPrompt(arg) ==
  IF NotNonEmptyArray(arg) THEN PromptError
  ELSE Prompt(FALSE, buildSystemInstructions,
              [i \in 1..Len(arg.items) |-> formatCoinSection(arg.items[i])],
              buildJsonSchema(arg.items), PromptReminder)

\* What the LLM adapter resolves with.
LlmSummaries ==
  { <<>>,
    << [coin |-> "bitcoin", symbol |-> "BTC", summary |-> "Bitcoin rose 5.2%"] >> }

Summarizing(pc, value) == [pc |-> pc, value |-> value]

InitSummarize ==
  /\ summarizeArg \in SummarizeArguments
  /\ summarizing = Summarizing("idle", <<>>)
  /\ prompt = <<>>
  /\ llmCalls = <<>>
  \* the other parts of the program are not part of this specification
  /\ parsedResponse = [type |-> "undefined", items |-> <<>>]
  /\ expectedCoins = <<>>
  /\ generation = Generation("idle", <<>>, FALSE, "", 0)
  /\ marketData = <<>>
  /\ newsData = <<>>
  /\ correlations = [pc |-> "idle", value |-> <<>>]
  /\ adapter = "llm"
  /\ env = [MAX_RETRIES |-> EnvUnset, RETRY_DELAY_MS |-> EnvUnset]
  /\ maxRetries = Num(0)
  /\ baseDelay = 0
  /\ attempt = 0
  /\ lastError = Undefined
  /\ rpc = "idle"
  /\ history = <<>>
  /\ delays = <<>>
  /\ thrown = NoError
  /\ result = 0
  /\ delivered = 0
  /\ cacheEnabled = TRUE
  /\ envTtl = [kind |-> "unset", val |-> 0]
  /\ dirExists = FALSE
  /\ files = <<>>
  /\ now = 0
  /\ ticks = 0
  /\ ops = 0
  /\ lastOp = <<>>
  /\ inodes = <<>>
  /\ link = 0
  /\ oldEntry = <<>>
  /\ newData = <<>>
  /\ wpc = "done"
  /\ wfd = 0
  /\ wtext = <<>>
  /\ rdpc = "done"
  /\ rfd = 0
  /\ rsize = 0
  /\ rbuf = <<>>
  /\ rret = <<>>
  /\ apiKey = FALSE
  /\ coinSymbols = <<>>
  /\ hoursBack = 0
  /\ callTime = 0
  /\ newsFrom = "none"
  /\ config = <<>>
  /\ booted = "no"
  /\ runs = <<>>
  /\ newsCached = FALSE
  /\ amountArg = [isNull |-> TRUE, negative |-> FALSE, billions |-> 0, units |-> 0,
                  cents |-> 0]
  /\ formatted = <<>>
  /\ factoryConfig = <<>>
  /\ adapters = <<>>
  /\ keyRequests = <<>>
  /\ cacheKeys = <<>>

\* A direct call of buildBatchPrompt(correlations).
BuildBatchPrompt ==
  /\ summarizing.pc = "idle"
  /\ prompt' = buildBatchPrompt(summarizeArg)
  /\ summarizing' = Summarizing("built", <<>>)
  /\ UNCHANGED <<summarizeArg, llmCalls>>
  /\ UNCHANGED <<retryVars, cacheVars, concVars, newsVars, pipeVars, llmVars, corrVars,
                 fmtVars, factVars, keyVars>>

\* generateSummaries(correlations, llmAdapter) up to its await
GenerateSummaries ==
  /\ summarizing.pc = "idle"
  /\ IF NotNonEmptyArray(summarizeArg)
       THEN /\ summarizing' = Summarizing("thrown", <<>>)
            /\ UNCHANGED <<prompt, llmCalls>>
       ELSE LET built == buildBatchPrompt(summarizeArg)
                expected == [i \in 1..Len(summarizeArg.items) |-> summarizeArg.items[i].symbol]
            IN IF built.thrown
                 THEN /\ summarizing' = Summarizing("thrown", <<>>)
                      /\ UNCHANGED <<prompt, llmCalls>>
                 ELSE /\ prompt' = built
                      /\ llmCalls' = Append(llmCalls, [functionSchema |-> buildFunctionSchema,
                                                       expectedCoins |-> expected])
                      /\ summarizing' = Summarizing("awaiting", <<>>)
  /\ UNCHANGED summarizeArg
  /\ UNCHANGED <<retryVars, cacheVars, concVars, newsVars, pipeVars, llmVars, corrVars,
                 fmtVars, factVars, keyVars>>

\* The LLM adapter settles: its summaries get the timestamp, or its error
\* goes to the caller.
LlmAdapterSettles ==
  /\ summarizing.pc = "awaiting"
  /\ \/ \E summaries \in LlmSummaries :
          summarizing' =
            Summarizing("returned",
                        [i \in 1..Len(summaries) |->
                           [coin |-> summaries[i].coin, symbol |-> summaries[i].symbol,
                            summary |-> summaries[i].summary, generatedAt |-> "timestamp"]])
     \/ summarizing' = Summarizing("thrown", <<>>)
  /\ UNCHANGED <<summarizeArg, prompt, llmCalls>>
  /\ UNCHANGED <<retryVars, cacheVars, concVars, newsVars, pipeVars, llmVars, corrVars,
                 fmtVars, factVars, keyVars>>

NextSummarize ==
  \/ BuildBatchPrompt
  \/ GenerateSummaries
  \/ LlmAdapterSettles

-----------------------------------------------------------------------------
(* The adapter factory (adapters/factory.js).  A function is known by its  *)
(* name; an object is the function from its property names to its values.  *)

\* the values a property of config can have: absent, null, or a function
ConfigValues == {"undefined", "null", "mockA", "mockB"}

\* createAdapters() and createAdapters({...}): config is absent, or an
\* object with some of the four slots and possibly another property
FactoryConfigs ==
  [given : {TRUE}, marketData : ConfigValues, news : ConfigValues, llm : ConfigValues,
   mailer : ConfigValues, extraProperty : {"undefined", "should be ignored"}]
    \cup [given : {FALSE}, marketData : {"undefined"}, news : {"undefined"},
          llm : {"undefined"}, mailer : {"undefined"}, extraProperty : {"undefined"}]

\* value || fallback
OrElse(value, fallback) == IF value \in {"undefined", "null"} THEN fallback ELSE value

\* variant: the result starts from a copy of config
createAdapters_CopiesConfig(cfg) ==
  [marketData |-> OrElse(cfg.marketData, "fetchMarketData"),
   news |-> OrElse(cfg.news, "fetchNews"),
   llm |-> OrElse(cfg.llm, "generateSummaries"),
   mailer |-> OrElse(cfg.mailer, "sendNewsletter"),
   extraProperty |-> cfg.extraProperty]

\* createAdapters(config = {})
createAdapters(cfg) ==
  [marketData |-> OrElse(cfg.marketData, "fetchMarketData"),
   news |-> OrElse(cfg.news, "fetchNews"),
   llm |-> OrElse(cfg.llm, "generateSummaries"),
   mailer |-> OrElse(cfg.mailer, "sendNewsletter")]

InitFactory ==
  /\ factoryConfig \in FactoryConfigs
  /\ adapters = <<>>
  /\ keyRequests = <<>>
  /\ cacheKeys = <<>>
  \* the other parts of the program are not part of this specification
  /\ parsedResponse = [type |-> "undefined", items |-> <<>>]
  /\ expectedCoins = <<>>
  /\ generation = Generation("idle", <<>>, FALSE, "", 0)
  /\ marketData = <<>>
  /\ newsData = <<>>
  /\ correlations = [pc |-> "idle", value |-> <<>>]
  /\ adapter = "llm"
  /\ env = [MAX_RETRIES |-> EnvUnset, RETRY_DELAY_MS |-> EnvUnset]
  /\ maxRetries = Num(0)
  /\ baseDelay = 0
  /\ attempt = 0
  /\ lastError = Undefined
  /\ rpc = "idle"
  /\ history = <<>>
  /\ delays = <<>>
  /\ thrown = NoError
  /\ result = 0
  /\ delivered = 0
  /\ cacheEnabled = TRUE
  /\ envTtl = [kind |-> "unset", val |-> 0]
  /\ dirExists = FALSE
  /\ files = <<>>
  /\ now = 0
  /\ ticks = 0
  /\ ops = 0
  /\ lastOp = <<>>
  /\ inodes = <<>>
  /\ link = 0
  /\ oldEntry = <<>>
  /\ newData = <<>>
  /\ wpc = "done"
  /\ wfd = 0
  /\ wtext = <<>>
  /\ rdpc = "done"
  /\ rfd = 0
  /\ rsize = 0
  /\ rbuf = <<>>
  /\ rret = <<>>
  /\ apiKey = FALSE
  /\ coinSymbols = <<>>
  /\ hoursBack = 0
  /\ callTime = 0
  /\ newsFrom = "none"
  /\ config = <<>>
  /\ booted = "no"
  /\ runs = <<>>
  /\ newsCached = FALSE
  /\ amountArg = [isNull |-> TRUE, negative |-> FALSE, billions |-> 0, units |-> 0,
                  cents |-> 0]
  /\ formatted = <<>>
  /\ summarizeArg = [type |-> "undefined", items |-> <<>>]
  /\ summarizing = [pc |-> "idle", value |-> <<>>]
  /\ prompt = <<>>
  /\ llmCalls = <<>>

CreateAdapters ==
  /\ adapters = <<>>
  /\ keyRequests = <<>>
  /\ cacheKeys = <<>>
  /\ adapters' = createAdapters(factoryConfig)
  /\ UNCHANGED factoryConfig
  /\ UNCHANGED <<retryVars, cacheVars, concVars, newsVars, pipeVars, llmVars, corrVars,
                 fmtVars, sumVars, keyVars>>

NextFactory == CreateAdapters

-----------------------------------------------------------------------------
(* The cache key of a news request (cryptopanic.js getCacheKey), computed  *)
(* for two requests.                                                       *)

\* symbols per request
MaxSymbols == 2

\* coin symbols: plain ones, one that is a prefix of another, and one with
\* a hyphen and a digit, the characters the key itself is built with
KeySymbols == { BTC, ETH, <<"X">>, <<"X", "-", "1">> }

\* the coinSymbols arguments: non-empty arrays (fetchNews throws on others)
KeySymbolLists ==
  UNION { [1..n -> KeySymbols] : n \in 1..MaxSymbols }

\* the hoursBack arguments
KeyWindows == {1, 2, 12}

KeyRequests == [symbols : KeySymbolLists, hoursBack : KeyWindows]

InitKey ==
  /\ keyRequests \in KeyRequests \X KeyRequests
  /\ cacheKeys = <<>>
  \* the other parts of the program are not part of this specification
  /\ parsedResponse = [type |-> "undefined", items |-> <<>>]
  /\ expectedCoins = <<>>
  /\ generation = Generation("idle", <<>>, FALSE, "", 0)
  /\ marketData = <<>>
  /\ newsData = <<>>
  /\ correlations = [pc |-> "idle", value |-> <<>>]
  /\ adapter = "llm"
  /\ env = [MAX_RETRIES |-> EnvUnset, RETRY_DELAY_MS |-> EnvUnset]
  /\ maxRetries = Num(0)
  /\ baseDelay = 0
  /\ attempt = 0
  /\ lastError = Undefined
  /\ rpc = "idle"
  /\ history = <<>>
  /\ delays = <<>>
  /\ thrown = NoError
  /\ result = 0
  /\ delivered = 0
  /\ cacheEnabled = TRUE
  /\ envTtl = [kind |-> "unset", val |-> 0]
  /\ dirExists = FALSE
  /\ files = <<>>
  /\ now = 0
  /\ ticks = 0
  /\ ops = 0
  /\ lastOp = <<>>
  /\ inodes = <<>>
  /\ link = 0
  /\ oldEntry = <<>>
  /\ newData = <<>>
  /\ wpc = "done"
  /\ wfd = 0
  /\ wtext = <<>>
  /\ rdpc = "done"
  /\ rfd = 0
  /\ rsize = 0
  /\ rbuf = <<>>
  /\ rret = <<>>
  /\ apiKey = FALSE
  /\ coinSymbols = <<>>
  /\ hoursBack = 0
  /\ callTime = 0
  /\ newsFrom = "none"
  /\ config = <<>>
  /\ booted = "no"
  /\ runs = <<>>
  /\ newsCached = FALSE
  /\ amountArg = [isNull |-> TRUE, negative |-> FALSE, billions |-> 0, units |-> 0,
                  cents |-> 0]
  /\ formatted = <<>>
  /\ summarizeArg = [type |-> "undefined", items |-> <<>>]
  /\ summarizing = [pc |-> "idle", value |-> <<>>]
  /\ prompt = <<>>
  /\ llmCalls = <<>>
  /\ factoryConfig = <<>>
  /\ adapters = <<>>

\* fetchNews of each request up to `const cacheKey = getCacheKey(...)`
GetCacheKey ==
  /\ cacheKeys = <<>>
  /\ cacheKeys' = <<getCacheKey(keyRequests[1].symbols, keyRequests[1].hoursBack),
                    getCacheKey(keyRequests[2].symbols, keyRequests[2].hoursBack)>>
  /\ UNCHANGED keyRequests
  /\ UNCHANGED <<retryVars, cacheVars, concVars, newsVars, pipeVars, llmVars, corrVars,
                 fmtVars, sumVars, factVars>>

NextKey == GetCacheKey

----------------------------------------------------------------------------
(* Specifications *)

SpecRetry == InitRetry /\ [][NextRetry]_vars

\* The retry loop when every awaited attempt settles (each request has a
\* timeout) and every backoff timer fires.  Nothing makes a caller call.
SpecRetryFair ==
  InitRetry /\ [][NextRetry]_vars /\ WF_vars(AttemptSettles) /\ WF_vars(SleepDone)

SpecCache == InitCache /\ [][NextCache]_vars

SpecConc == InitConc /\ [][NextConc]_vars

SpecNews == InitNews /\ [][NextNews]_vars

SpecPipeline == InitPipeline /\ [][NextPipeline]_vars

SpecValidate == InitValidate /\ [][NextValidate]_vars

SpecCorrelate == InitCorrelate /\ [][NextCorrelate]_vars

SpecFormat == InitFormat /\ [][NextFormat]_vars

SpecSummarize == InitSummarize /\ [][NextSummarize]_vars

SpecFactory == InitFactory /\ [][NextFactory]_vars

SpecKey == InitKey /\ [][NextKey]_vars

----------------------------------------------------------------------------
(* Properties of the retry loops (checked under SpecRetry) *)

\* The failure classes the retry policy names.
TransientKinds == {"network", "server", "timeout"}

\* A client/configuration-class failure of the remote: HTTP 400-499, or for
\* mail an authentication / invalid-credentials failure.
ClientClass(a, raw) ==
  IF a = "mail" THEN raw.kind \in {"auth", "credentials"}
  ELSE raw.status \in 400..499

AttemptFailed(i) == ~history[i].ok
AllTransientUpTo(k) ==
  \A i \in 1..k : AttemptFailed(i) /\ history[i].raw.kind \in TransientKinds

\* the delays D, 2D, 4D, ... of the waits after attempts 0 .. k-1
ExpectedDelays(k) == [j \in 1..k |-> baseDelay * (2 ^ (j - 1))]

ValidRetries == ~maxRetries.nan /\ maxRetries.val >= 0

\* C1: an attempt that fails with a client/configuration-class error is the
\* last attempt of the call: the call has ended by raising that attempt's
\* error, and no backoff wait follows it (so a first-attempt client error
\* gives exactly one attempt and no wait), for every retry count R >= 0.
C1_ClientErrorEndsCall ==
  ValidRetries =>
    \A i \in 1..Len(history) :
      (AttemptFailed(i) /\ ClientClass(adapter, history[i].raw)) =>
        /\ i = Len(history)
        /\ rpc = "thrown"
        /\ thrown = history[i].err
        /\ Len(delays) = i - 1

C1_Witness ==
  /\ adapter = "mail"
  /\ maxRetries = Num(2)
  /\ Len(history) = 1
  /\ history[1].raw.kind = "auth"
  /\ history[1].err.wrapped
  /\ rpc = "thrown"
  /\ delays = <<>>

\* C2: when every attempt fails with a transient error, the call ends after
\* exactly R+1 attempts, the waits are D*2^i after attempt i (0 <= i < R),
\* and no wait follows the final attempt.
C2_ExhaustionBackoff ==
  (ValidRetries /\ rpc = "thrown" /\ AllTransientUpTo(Len(history))) =>
    /\ Len(history) = maxRetries.val + 1
    /\ delays = ExpectedDelays(maxRetries.val)

C2_Witness ==
  /\ adapter = "news"
  /\ maxRetries = Num(3)
  /\ rpc = "thrown"
  /\ Len(history) = 4
  /\ AllTransientUpTo(4)
  /\ delays = <<baseDelay, 2 * baseDelay, 4 * baseDelay>>

\* C3: k transient failures followed by a success give exactly k+1
\* attempts with waits D, 2D, ..., D*2^(k-1) in that order, the call returns
\* the successful attempt's result, and a success is never followed by a
\* further attempt.
C3_RetryThenSuccess ==
  \A i \in 1..Len(history) :
    history[i].ok =>
      /\ i = Len(history)
      /\ rpc = "returned"
      /\ result = history[i].value
      /\ (AllTransientUpTo(i - 1) => delays = ExpectedDelays(i - 1))

C3_Witness ==
  /\ adapter = "market"
  /\ rpc = "returned"
  /\ Len(history) = 3
  /\ history[1].raw.status = 500
  /\ history[2].raw.status = 503
  /\ history[3].ok
  /\ result = 2
  /\ baseDelay = 2
  /\ delays = <<2, 4>>

\* attempt i failed on the shape of the payload: a non-array market or news
\* body, an LLM reply without function call, with arguments that are not
\* JSON, without summaries array, or with an entry that has an empty field
ShapeFailure(i) == AttemptFailed(i) /\ history[i].err.kind = "shape"

\* C17: an attempt that fails on the shape of a payload (never a 4xx reply)
\* is treated as a transient failure: when it is not the last permitted
\* attempt (i <= R) the wait D*2^(i-1) follows it and then a further
\* attempt; when it is the last one (i = R+1) the call ends by raising
\* that attempt's error, with no wait after it.
C17_ShapeErrorRetried ==
  ValidRetries =>
    \A i \in 1..Len(history) :
      ShapeFailure(i) =>
        /\ history[i].err.status \notin 400..499
        /\ i <= maxRetries.val + 1
        /\ IF i <= maxRetries.val
             THEN /\ Len(delays) >= i
                  /\ delays[i] = baseDelay * (2 ^ (i - 1))
                  /\ Len(history) = i => rpc \in {"sleeping", "attempting"}
             ELSE /\ Len(history) = i
                  /\ rpc = "thrown"
                  /\ thrown = history[i].err
                  /\ Len(delays) = maxRetries.val

C17_Witness ==
  /\ adapter = "llm"
  /\ maxRetries = Num(2)
  /\ rpc = "thrown"
  /\ Len(history) = 3
  /\ \A i \in 1..3 : ShapeFailure(i)
  /\ history[1].raw = JsonSyntaxError
  /\ baseDelay = 2
  /\ delays = <<2, 4>>
  /\ thrown = NewError("shape")

\* C4: after the retries are exhausted the error raised to the caller is the
\* error the remote operation raised on the last attempt, unchanged: not
\* wrapped, with its status and error code.
C4_LastErrorUnchanged ==
  (ValidRetries /\ rpc = "thrown" /\ Len(history) = maxRetries.val + 1) =>
    thrown = history[Len(history)].raw

\* C5: within one call of the mail send wrapper the message is handed over
\* for delivery at most once.
C5_SingleDelivery ==
  adapter = "mail" => delivered <= 1

----------------------------------------------------------------------------
(* Properties of the TTL cache (checked under SpecCache) *)

\* a step that is a getCached / setCached / clearCache call
GetStep == ops' = ops + 1 /\ lastOp'.op = "get"
ClearStep == ops' = ops + 1 /\ lastOp'.op = "clear"

\* the stored entry of a key: its file exists and holds a complete entry
HasEntry(fs, key) ==
  fs[getCacheFilePath(key)].exists /\ Parses(fs[getCacheFilePath(key)].text)
EntryOf(fs, key) == Parse(fs[getCacheFilePath(key)].text)

\* an entry is readable at time t
Readable(entry, t) == t <= entry.timestamp + entry.ttl

\* C6: get(key) returns the stored payload if and only if an entry for the
\* key exists and now <= timestamp + ttl (the boundary instant is a hit, a
\* later one a miss).  "Only if" holds of every get; "if" of every get of an
\* enabled cache that meets no storage failure.
C6_GetIffFresh ==
  [][GetStep =>
       LET key == lastOp'.key IN
       /\ lastOp'.ret.hit =>
            /\ HasEntry(files, key)
            /\ Readable(EntryOf(files, key), now)
            /\ lastOp'.ret.data = EntryOf(files, key).data
       /\ (cacheEnabled /\ lastOp'.why # "error" /\ HasEntry(files, key)
             /\ Readable(EntryOf(files, key), now))
            => lastOp'.ret.hit
       /\ (HasEntry(files, key) /\ ~Readable(EntryOf(files, key), now))
            => lastOp'.ret = Null
    ]_vars

\* a hit exactly at now = timestamp + ttl, one minute after the set
C6_Witness ==
  /\ lastOp.op = "get"
  /\ lastOp.ret = Hit(<<1>>)
  /\ HasEntry(files, lastOp.key)
  /\ now = EntryOf(files, lastOp.key).timestamp + EntryOf(files, lastOp.key).ttl
  /\ now = MsPerMinute

\* C7: a get that misses because the entry is expired deletes that entry
\* and only that entry; a get that misses because the key is not found
\* deletes nothing.
C7_ExpiredEntryDeleted ==
  [][GetStep =>
       LET key == lastOp'.key
           filePath == getCacheFilePath(key) IN
       /\ (cacheEnabled /\ lastOp'.why # "error" /\ HasEntry(files, key)
             /\ ~Readable(EntryOf(files, key), now))
            => /\ lastOp'.ret = Null
               /\ ~files'[filePath].exists
               /\ \A p \in Paths \ {filePath} : files'[p] = files[p]
       /\ ~files[filePath].exists
            => /\ lastOp'.ret = Null
               /\ files' = files
    ]_vars

\* an expired entry was just removed by a get while another entry stays
C7_Witness ==
  /\ lastOp.op = "get"
  /\ lastOp.why = "expired"
  /\ ~files[getCacheFilePath(lastOp.key)].exists
  /\ \E p \in Paths : files[p].exists

\* the TTL a set is given: its ttlMinutes argument or, without one, the
\* configured CACHE_TTL_MINUTES or else 360 minutes; in milliseconds
TtlOfSet(set) ==
  (IF set.ttlMinutes > 0 THEN set.ttlMinutes
   ELSE IF envTtl.kind = "int" THEN envTtl.val ELSE 360) * 60 * 1000

\* C8: with the cache enabled, the get(k) that follows a set(k, v) (the
\* most recent set of any sequence of sets) returns v while the time is not
\* past the TTL, and absent once it is.
C8_RoundTrip ==
  [][(GetStep /\ lastOp.op = "set" /\ lastOp.why = "stored"
        /\ lastOp'.key = lastOp.key /\ cacheEnabled /\ lastOp'.why # "error")
       => lastOp'.ret = IF now <= lastOp.at + TtlOfSet(lastOp)
                          THEN Hit(lastOp.data) ELSE Null
    ]_vars

\* the third operation is a get that returns <<1>>: the entry was
\* overwritten by the second operation or written by it
C8_Witness ==
  /\ ops = 3
  /\ lastOp.op = "get"
  /\ lastOp.ret = Hit(<<1>>)
  /\ HasEntry(files, lastOp.key)
  /\ EntryOf(files, lastOp.key).timestamp = MsPerMinute
  /\ now = MsPerMinute

\* C10: clear() returns the number of entries it removed: the count equals
\* the number of entries that existed before the call and no longer exist
\* after it, also when a storage error interrupts the removal.
C10_ClearCountsRemoved ==
  [][ClearStep =>
       lastOp'.count = Cardinality({p \in Paths : files[p].exists /\ ~files'[p].exists})
    ]_vars

SetStep == ops' = ops + 1 /\ lastOp'.op = "set"

\* C11: with the cache disabled, every get reports absent (also for a key
\* with a stored unexpired entry), every set does nothing, both return
\* normally, and neither changes what is stored.
C11_DisabledMode ==
  [][((GetStep \/ SetStep) /\ ~cacheEnabled) =>
       /\ lastOp'.why = "disabled"
       /\ lastOp'.ret = Null
       /\ files' = files
       /\ dirExists' = dirExists
    ]_vars

\* a disabled get of a key whose unexpired entry is stored
C11_Witness ==
  /\ ~cacheEnabled
  /\ lastOp.op = "get"
  /\ lastOp.why = "disabled"
  /\ lastOp.ret = Null
  /\ HasEntry(files, lastOp.key)
  /\ Readable(EntryOf(files, lastOp.key), now)
  /\ EntryOf(files, lastOp.key).data = <<1>>

----------------------------------------------------------------------------
(* Properties of the news fetch (checked under SpecNews) *)

\* a stored text that is not a complete entry: empty or cut off
Corrupt(text) == text = <<>> \/ text[Len(text)].t # "close"

\* C12: a storage failure or an unparsable entry met by the cache lookup of
\* a news fetch gives absent and the fetch goes on to the network as on a
\* miss; a storage failure met by the cache store leaves the fetch
\* returning the list it fetched.  The fetch never raises a storage error.
C12_StorageErrorsSwallowed ==
  [][/\ (GetStep /\ cacheEnabled
            /\ files[getCacheFilePath(lastOp'.key)].exists
            /\ (lastOp'.why = "error"
                  \/ Corrupt(files[getCacheFilePath(lastOp'.key)].text)))
           => (/\ lastOp'.ret = Null
               /\ rpc' = "attempting"
               /\ attempt' = 0
               /\ history' = <<>>
               /\ thrown' = thrown)
     /\ (SetStep /\ lastOp'.why = "error")
           => (/\ rpc' = "returned"
               /\ newsFrom' = "network"
               /\ result' = history'[Len(history')].value
               /\ thrown' = thrown)
    ]_vars

\* the lookup of a fetch met the cut-off text an earlier failed store left,
\* and the fetch is now at its first network attempt
C12_Witness ==
  /\ rpc = "attempting"
  /\ history = <<>>
  /\ lastOp.op = "get"
  /\ lastOp.why = "error"
  /\ files[getCacheFilePath(lastOp.key)].exists
  /\ Len(files[getCacheFilePath(lastOp.key)].text) = 2
  /\ Corrupt(files[getCacheFilePath(lastOp.key)].text)

\* C13: every item a news fetch returns, from the network or from the
\* cache, was published within the hoursBack hours before the call.
C13_ItemsWithinWindow ==
  rpc = "returned" =>
    \A i \in 1..Len(result) : result[i] >= callTime - hoursBack * 60 * 60 * 1000

----------------------------------------------------------------------------
(* Properties of the pipeline runs (checked under SpecPipeline) *)

\* the adapters a run has called, in order
Called(run) ==
  LET calls == SelectSeq(run.events, LAMBDA e : e.ev = "call")
  IN [i \in 1..Len(calls) |-> calls[i].adapter]

StepsBeforeMailer == {"marketData", "log", "news", "llm", "compile"}

C15_AdapterOrder ==
  \A r \in 1..Len(runs) :
    runs[r].pc = "done" =>
      runs[r].events =
        <<[adapter |-> "marketData", ev |-> "call"], [adapter |-> "marketData", ev |-> "return"],
          [adapter |-> "news", ev |-> "call"], [adapter |-> "news", ev |-> "return"],
          [adapter |-> "llm", ev |-> "call"], [adapter |-> "llm", ev |-> "return"],
          [adapter |-> "mailer", ev |-> "call"], [adapter |-> "mailer", ev |-> "return"]>>

C15_Witness ==
  /\ Len(runs) = 1
  /\ runs[1].pc = "done"
  /\ Len(runs[1].events) = 8
  /\ runs[1].net = 4

\* C16: when start-up or a run ends with a configuration error, no network
\* attempt has been made before it.
C16_ConfigErrorBeforeNetwork ==
  /\ booted = "exit" => runs = <<>>
  /\ \A r \in 1..Len(runs) :
       (runs[r].pc = "failed" /\ runs[r].errorKind = "config") => runs[r].net = 0

-----------------------------------------------------------------------------
(* Properties of the checks on the LLM reply (checked under SpecValidate) *)

\* a property of an entry that is missing or the empty text
EmptyOrMissing(v) == v = JsUndefined \/ v = JsString("")

\* the reply has a summaries array and every entry has a coin, a symbol and
\* a summary
WellFormed(parsed) ==
  /\ parsed.type = "array"
  /\ \A i \in 1..Len(parsed.items) :
       /\ ~EmptyOrMissing(parsed.items[i].coin)
       /\ ~EmptyOrMissing(parsed.items[i].symbol)
       /\ ~EmptyOrMissing(parsed.items[i].summary)

\* some expected symbol has no entry in the reply
LacksExpected(parsed, expected) ==
  \E k \in 1..Len(expected) :
    \A i \in 1..Len(parsed.items) : parsed.items[i].symbol # JsString(expected[k])

\* C18: a reply without a summaries array, or with an entry whose coin,
\* symbol or summary is empty or missing, is rejected with an error; a
\* well-formed reply is returned as it is, also when it lacks some of the
\* expected symbols, and lacking them only gives a warning.
C18_ResponseValidation ==
  generation.pc \in {"returned", "thrown"} =>
    /\ ~WellFormed(parsedResponse) => generation.pc = "thrown"
    /\ WellFormed(parsedResponse) =>
         /\ generation.pc = "returned"
         /\ generation.value = parsedResponse.items
         /\ generation.warned <=> LacksExpected(parsedResponse, expectedCoins)

C18_Witness ==
  /\ expectedCoins = <<"BTC", "ETH">>
  /\ parsedResponse.type = "array"
  /\ Len(parsedResponse.items) = 1
  /\ parsedResponse.items[1].symbol = JsString("BTC")
  /\ generation.pc = "returned"
  /\ generation.value = parsedResponse.items
  /\ generation.warned

-----------------------------------------------------------------------------
(* Properties of the correlation engine (checked under SpecCorrelate) *)

\* C19: for arrays of snapshots and news items, correlateData returns one
\* record per snapshot in the order of the snapshots, and record i carries
\* the identifier, symbol, name and price fields of snapshot i unchanged,
\* whatever the news list is (the empty one included).
C19_OneRecordPerSnapshot ==
  (correlations.pc # "called" /\ marketData.type = "array" /\ newsData.type = "array") =>
    /\ correlations.pc = "returned"
    /\ Len(correlations.value) = Len(marketData.items)
    /\ \A i \in 1..Len(marketData.items) :
         LET record == correlations.value[i]
             snapshot == marketData.items[i]
         IN /\ record.coin = snapshot.id
            /\ record.symbol = snapshot.symbol
            /\ record.name = snapshot.name
            /\ record.currentPrice = snapshot.currentPrice
            /\ record.priceChange24h = snapshot.priceChange24h
            /\ record.priceChangePercentage24h = snapshot.priceChangePercentage24h
            /\ record.volume24h = snapshot.volume24h
            /\ record.marketCap = snapshot.marketCap

C19_Witness ==
  /\ marketData.type = "array"
  /\ Len(marketData.items) = 2
  /\ marketData.items[1].symbol = "ETH"
  /\ marketData.items[2].symbol = "BTC"
  /\ newsData = [type |-> "array", items |-> <<>>]
  /\ correlations.pc = "returned"
  /\ Len(correlations.value) = 2
  /\ correlations.value[1].coin = "ethereum"
  /\ correlations.value[2].coin = "bitcoin"

\* the positions of the news items whose currencies contain the symbol
Matching(symbol) ==
  { j \in 1..Len(newsData.items) :
      \E c \in 1..Len(newsData.items[j].currencies) :
        newsData.items[j].currencies[c] = symbol }

\* C21: explanationBasis is "news" when 2 or more news items match the
\* snapshot's symbol, "both" when exactly 1 matches and "signals" when none
\* does, counted before the cut to 5 items.
C21_BasisFromMatchCount ==
  correlations.pc = "returned" =>
    \A i \in 1..Len(correlations.value) :
      LET n == Cardinality(Matching(marketData.items[i].symbol))
      IN correlations.value[i].explanationBasis =
           IF n >= 2 THEN "news" ELSE IF n = 1 THEN "both" ELSE "signals"

C21_Witness ==
  /\ correlations.pc = "returned"
  /\ Len(correlations.value) = 1
  /\ Cardinality(Matching(marketData.items[1].symbol)) = 6
  /\ Len(correlations.value[1].relevantNews) = 5
  /\ correlations.value[1].explanationBasis = "news"

\* the place of matching item j among the matching items, most recent
\* first, items of the same time in input order
NewsRank(symbol, j) ==
  1 + Cardinality({ k \in Matching(symbol) :
                      \/ newsData.items[k].publishedAt > newsData.items[j].publishedAt
                      \/ /\ newsData.items[k].publishedAt = newsData.items[j].publishedAt
                         /\ k < j })

\* C22: relevantNews holds the first min(5, n) of the n news items that
\* match the snapshot's symbol, most recent first and items of the same
\* time in input order: nothing else is in it, and it has at most 5 entries.
C22_RelevantNewsTopFive ==
  correlations.pc = "returned" =>
    \A i \in 1..Len(correlations.value) :
      LET symbol == marketData.items[i].symbol
          relevantNews == correlations.value[i].relevantNews
          n == Cardinality(Matching(symbol))
          kept == IF n < 5 THEN n ELSE 5
      IN /\ Len(relevantNews) = kept
         /\ Len(relevantNews) <= 5
         /\ \A j \in Matching(symbol) :
              NewsRank(symbol, j) <= kept =>
                LET shown == relevantNews[NewsRank(symbol, j)]
                IN /\ shown.title = newsData.items[j].title
                   /\ shown.source = newsData.items[j].source
                   /\ shown.publishedAt = newsData.items[j].publishedAt

C22_Witness ==
  /\ correlations.pc = "returned"
  /\ Len(correlations.value) = 1
  /\ marketData.items[1].symbol = "BTC"
  /\ Len(newsData.items) = 6
  /\ \A j \in 1..6 : newsData.items[j].currencies = <<"BTC">>
  /\ [j \in 1..6 |-> newsData.items[j].publishedAt] = <<1, 2, 2, 1, 2, 1>>
  /\ [r \in 1..5 |-> correlations.value[1].relevantNews[r].title]
       = <<"n2", "n3", "n5", "n1", "n4">>

\* C23: every record carries the fallback signals, whatever its
\* explanationBasis: three sentences, on the price change, the 24h volume
\* and the market cap, in this order.
C23_SignalsAlways ==
  correlations.pc = "returned" =>
    \A i \in 1..Len(correlations.value) :
      LET signals == correlations.value[i].fallbackSignals
      IN /\ correlations.value[i].explanationBasis \in {"news", "both", "signals"}
         /\ Len(signals) = 3
         /\ signals[1].sentence = "Price"
         /\ signals[2].sentence = "24h trading volume"
         /\ signals[3].sentence = "Market cap"

C23_Witness ==
  /\ correlations.pc = "returned"
  /\ Len(correlations.value) = 2
  /\ correlations.value[1].explanationBasis = "news"
  /\ Len(correlations.value[1].fallbackSignals) = 3
  /\ correlations.value[2].explanationBasis = "both"
  /\ Len(correlations.value[2].fallbackSignals) = 3
  /\ correlations.value[2].fallbackSignals[1].sentence = "Price"

\* C25: when the market data or the news is not an array, correlateData
\* ends with an error and gives no records.
C25_InvalidInputRejected ==
  (correlations.pc # "called" /\ (marketData.type # "array" \/ newsData.type # "array")) =>
    /\ correlations.pc = "thrown"
    /\ correlations.value = <<>>

C25_Witness ==
  /\ marketData.type = "array"
  /\ Len(marketData.items) = 2
  /\ newsData.type = "object"
  /\ correlations = Correlations("thrown", <<>>)

\* C20: a record's direction is "up" exactly when the snapshot's percentage
\* change is greater than 0; it is "down" for a negative change and for a
\* change of exactly 0.
C20_DirectionUpIffPositive ==
  correlations.pc = "returned" =>
    \A i \in 1..Len(correlations.value) :
      LET percentChange == marketData.items[i].priceChangePercentage24h
          direction == correlations.value[i].direction
      IN /\ direction = "up" <=> percentChange > 0
         /\ percentChange <= 0 => direction = "down"

C20_Witness ==
  /\ correlations.pc = "returned"
  /\ Len(correlations.value) = 2
  /\ marketData.items[1].priceChangePercentage24h = 0
  /\ correlations.value[1].direction = "down"
  /\ marketData.items[2].priceChangePercentage24h = 1
  /\ correlations.value[2].direction = "up"

-----------------------------------------------------------------------------
(* Properties of formatCurrency (checked under SpecFormat) *)

\* the unit the magnitude of the amount calls for: 1e9, 1e6, 1e3, or 1
UnitOf(a) ==
  IF a.billions >= 1 THEN 1000000000
  ELSE IF a.units >= 1000000 THEN 1000000
  ELSE IF a.units >= 1000 THEN 1000
  ELSE 1

SuffixOf(unit) ==
  IF unit = 1000000000 THEN "B" ELSE IF unit = 1000000 THEN "M" ELSE "K"

\* n tenths of the unit are as near to the magnitude of the amount as a
\* number of tenths can be
NearestTenths(a, unit, n) ==
  LET step == unit \div 10
      below == (IF unit = 1000000000 THEN a.billions * 10 ELSE 0) + a.units \div step
      rest == a.units % step
  IN \/ n = below /\ (2 * rest < step \/ (2 * rest = step /\ a.cents = 0))
     \/ n = below + 1 /\ 2 * rest >= step

\* C24: null / undefined is shown as "$0"; an amount of magnitude >= 1e9 is
\* shown in billions with one decimal and B, >= 1e6 in millions with M,
\* >= 1e3 in thousands with K, a smaller one unscaled with two decimals;
\* 28e9 is "$28.0B", 850e9 "$850.0B" and 1500e9 "$1500.0B".
C24_CurrencyAbbreviation ==
  formatted # <<>> =>
    /\ amountArg.isNull => formatted = <<"$", "0">>
    /\ (~amountArg.isNull /\ UnitOf(amountArg) > 1) =>
         \E n \in 0..20000 :
           /\ NearestTenths(amountArg, UnitOf(amountArg), n)
           /\ formatted = <<"$">> \o (IF amountArg.negative THEN <<"-">> ELSE <<>>)
                            \o DecimalString(n \div 10) \o <<".">> \o DecimalString(n % 10)
                            \o <<SuffixOf(UnitOf(amountArg))>>
    /\ (~amountArg.isNull /\ UnitOf(amountArg) = 1) =>
         formatted = <<"$">> \o (IF amountArg.negative THEN <<"-">> ELSE <<>>)
                       \o DecimalString(amountArg.units) \o <<".">>
                       \o DecimalString(amountArg.cents \div 10)
                       \o DecimalString(amountArg.cents % 10)
    /\ amountArg = Amount(28, 0, 0) => formatted = <<"$", "2", "8", ".", "0", "B">>
    /\ amountArg = Amount(850, 0, 0) => formatted = <<"$", "8", "5", "0", ".", "0", "B">>
    /\ amountArg = Amount(1500, 0, 0) => formatted = <<"$", "1", "5", "0", "0", ".", "0", "B">>

C24_Witness ==
  /\ amountArg = Amount(1500, 0, 0)
  /\ formatted = <<"$", "1", "5", "0", "0", ".", "0", "B">>

-----------------------------------------------------------------------------
(* Properties of the prompt builder and of generateSummaries (checked      *)
(* under SpecSummarize)                                                    *)

\* the argument is no array, or an array without records
NoRecords(arg) == arg.type # "array" \/ arg.items = <<>>

\* C26: buildBatchPrompt throws for an empty array and for an argument that
\* is no array, and generateSummaries calls the LLM adapter only when it
\* has at least one correlation record.
C26_NoPromptNoCallWithoutRecords ==
  /\ (summarizing.pc = "built" /\ NoRecords(summarizeArg)) => prompt.thrown
  /\ NoRecords(summarizeArg) => llmCalls = <<>>
  /\ (summarizing.pc \in {"awaiting", "returned", "thrown"} /\ NoRecords(summarizeArg)) =>
       summarizing = Summarizing("thrown", <<>>)

C26_Witness ==
  /\ summarizeArg = [type |-> "array", items |-> <<>>]
  /\ summarizing.pc = "thrown"
  /\ llmCalls = <<>>

\* section has a line of this kind
HasLine(section, kind) == \E k \in 1..Len(section) : section[k].kind = kind

\* C27: a prompt has one section per correlation record, in the order of
\* the records; a section has the Market Indicators block exactly when the
\* record's explanationBasis is "signals" or "both" (never for "news"), and
\* the numbered news block exactly when the record has a relevant news item.
C27_SectionsAndBlocks ==
  (summarizing.pc # "idle" /\ prompt # <<>> /\ ~prompt.thrown) =>
    /\ Len(prompt.sections) = Len(summarizeArg.items)
    /\ \A i \in 1..Len(summarizeArg.items) :
         LET record == summarizeArg.items[i]
             section == prompt.sections[i]
         IN /\ \E k \in 1..Len(section) :
                 section[k] = Line("coin", <<record.name, record.symbol>>)
            /\ Cardinality({ k \in 1..Len(section) : section[k].kind = "coin" }) = 1
            /\ HasLine(section, "indicatorsTitle")
                 <=> record.explanationBasis \in {"signals", "both"}
            /\ record.explanationBasis = "news" => ~HasLine(section, "indicator")
            /\ HasLine(section, "newsTitle") <=> Len(record.relevantNews) >= 1
            /\ HasLine(section, "newsItem") <=> Len(record.relevantNews) >= 1

C27_Witness ==
  /\ summarizing.pc = "awaiting"
  /\ ~prompt.thrown
  /\ Len(prompt.sections) = 2
  /\ summarizeArg.items[1].explanationBasis = "news"
  /\ ~HasLine(prompt.sections[1], "indicatorsTitle")
  /\ HasLine(prompt.sections[1], "newsItem")
  /\ summarizeArg.items[2].explanationBasis = "signals"
  /\ HasLine(prompt.sections[2], "indicatorsTitle")
  /\ ~HasLine(prompt.sections[2], "newsTitle")

\* C28: the fixed instructions of a prompt contain "Insufficient data" and
\* none of the phrases checkForForbiddenContent flags in a summary.
C28_InstructionsClean ==
  (summarizing.pc # "idle" /\ prompt # <<>> /\ ~prompt.thrown) =>
    /\ IncludesPhrase(prompt.instructions, <<"Insufficient", "data">>)
    /\ \A phrase \in ForbiddenPhrases : ~PatternTest(phrase, prompt.instructions)

-----------------------------------------------------------------------------
(* Properties of createAdapters (checked under SpecFactory) *)

\* the production adapter of a slot
ProductionDefault(slot) ==
  CASE slot = "marketData" -> "fetchMarketData"
    [] slot = "news" -> "fetchNews"
    [] slot = "llm" -> "generateSummaries"
    [] slot = "mailer" -> "sendNewsletter"

\* C29: createAdapters returns exactly the slots marketData, news, llm and
\* mailer; a slot is the function config gives for it when it gives one,
\* the production adapter otherwise; no other property of config is in the
\* result.
C29_FourSlots ==
  adapters # <<>> =>
    /\ DOMAIN adapters = {"marketData", "news", "llm", "mailer"}
    /\ \A slot \in {"marketData", "news", "llm", "mailer"} :
         adapters[slot] = IF factoryConfig[slot] \in {"mockA", "mockB"}
                            THEN factoryConfig[slot]
                            ELSE ProductionDefault(slot)

C29_Witness ==
  /\ factoryConfig.given
  /\ factoryConfig.llm = "mockA"
  /\ factoryConfig.mailer = "mockB"
  /\ factoryConfig.marketData = "undefined"
  /\ factoryConfig.extraProperty = "should be ignored"
  /\ adapters # <<>>
  /\ adapters.llm = "mockA"
  /\ adapters.mailer = "mockB"
  /\ adapters.marketData = "fetchMarketData"

-----------------------------------------------------------------------------
(* Termination of the retry loop (checked under SpecRetryFair) *)

\* the call has ended: its promise is resolved or rejected
Ended == rpc \in {"returned", "thrown"}

\* attempts made so far are within R + 1 (none when R is negative or NaN)
AttemptsWithinBound ==
  IF maxRetries.nan \/ maxRetries.val < 0
    THEN Len(history) = 0
    ELSE Len(history) <= maxRetries.val + 1

\* C30: every retry loop terminates: a started call ends in a returned
\* result or a raised error, it has made at most R + 1 attempts, and once
\* ended it makes no further attempt and does not wait again.
C30_RetryLoopTerminates ==
  /\ [](AttemptsWithinBound)
  /\ (rpc # "idle") ~> Ended
  /\ [][Ended => UNCHANGED retryVars]_vars

C30_Witness ==
  /\ rpc = "thrown"
  /\ ~maxRetries.nan
  /\ maxRetries.val = MaxRetriesBound
  /\ Len(history) = maxRetries.val + 1
  /\ Len(delays) = maxRetries.val
  /\ thrown = history[Len(history)].err

-----------------------------------------------------------------------------
(* Properties of the news cache key (checked under SpecKey) *)

\* how often a symbol stands in a list
Occurrences(symbol, list) == Cardinality({i \in 1..Len(list) : list[i] = symbol})

\* two lists are permutations of each other
Permutation(a, b) == \A symbol \in KeySymbols : Occurrences(symbol, a) = Occurrences(symbol, b)

SymbolSet(list) == {list[i] : i \in 1..Len(list)}

\* C31: the news cache key is a function of the sorted, comma-joined
\* symbol list and the lookback window: requests whose symbol lists are
\* permutations of each other, with the same hoursBack, use the same key;
\* requests that differ in the symbol set or in hoursBack use different keys.
C31_KeyOfSortedSymbolsAndWindow ==
  cacheKeys # <<>> =>
    LET a == keyRequests[1]
        b == keyRequests[2]
    IN /\ (Permutation(a.symbols, b.symbols) /\ a.hoursBack = b.hoursBack)
            => (cacheKeys[1] = cacheKeys[2])
       /\ (SymbolSet(a.symbols) # SymbolSet(b.symbols) \/ a.hoursBack # b.hoursBack)
            => (cacheKeys[1] # cacheKeys[2])

C31_Witness ==
  /\ keyRequests # <<>>
  /\ keyRequests[1].symbols = <<ETH, BTC>>
  /\ keyRequests[2].symbols = <<BTC, ETH>>
  /\ keyRequests[1].hoursBack = 12
  /\ keyRequests[2].hoursBack = 12
  /\ cacheKeys # <<>>
  /\ cacheKeys[1] = cacheKeys[2]

-----------------------------------------------------------------------------
(* At least one attempt (checked under SpecRetry) *)

\* C32: a retried adapter call that has finished has made at least one
\* attempt, and the error it raises is the error of an attempt it made,
\* never the unassigned lastError, whatever MAX_RETRIES is set to.
C32_AtLeastOneAttempt ==
  rpc \in {"returned", "thrown"} =>
    /\ Len(history) >= 1
    /\ (rpc = "thrown") =>
         /\ thrown # Undefined
         /\ \E i \in 1..Len(history) : thrown = history[i].err

-----------------------------------------------------------------------------
(* Keys do not interfere (checked under SpecCache) *)

\* what getCached(key) returns at time t from the files fs, cache enabled
\* and no storage failure
Lookup(fs, key, t) ==
  LET file == fs[getCacheFilePath(key)] IN
  IF ~file.exists \/ ~Parses(file.text) THEN Null
  ELSE IF Expired(Parse(file.text), t) THEN Null
  ELSE Hit(Parse(file.text).data)

\* C33: entries of distinct keys never interfere: a setCached of another
\* key does not change what getCached(k1) returns, and a getCached of
\* another key (with its expiry cleanup) never removes the entry of k1.
C33_DistinctKeysIndependent ==
  [][\A k1 \in Keys :
       (ops' = ops + 1 /\ lastOp'.op \in {"set", "get"} /\ lastOp'.key # k1) =>
         /\ Lookup(files', k1, now) = Lookup(files, k1, now)
         /\ files[getCacheFilePath(k1)].exists => files'[getCacheFilePath(k1)].exists]_vars

-----------------------------------------------------------------------------
(* The cache writes of a news fetch (checked under SpecNews) *)

\* the awaited fetchWithRetry returned: the fetch missed the cache and succeeded
NetworkSuccess == rpc = "attempting" /\ rpc' = "returned"

\* C35: a news fetch that ends in an error writes no entry and leaves what
\* the cache returns unchanged: only the step of a fetch that missed the
\* cache and succeeded writes, and it writes exactly one entry, under the
\* request's key, holding exactly the list the fetch returns.  The write is
\* stated for an enabled cache whose store meets no storage failure.
C35_CacheWrittenOnSuccessOnly ==
  [][/\ ~NetworkSuccess =>
          /\ \A k \in NewsKeys : Lookup(files', k, now) = Lookup(files, k, now)
          /\ \A p \in NewsPaths : files'[p] = files[p] \/ ~files'[p].exists
     /\ (NetworkSuccess /\ cacheEnabled /\ lastOp'.why # "error") =>
          LET key == getCacheKey(coinSymbols, hoursBack) IN
          /\ lastOp'.op = "set"
          /\ lastOp'.key = key
          /\ HasEntry(files', key)
          /\ EntryOf(files', key).data = result'
          /\ EntryOf(files', key).timestamp = now
          /\ \A p \in NewsPaths \ {getCacheFilePath(key)} : files'[p] = files[p]
    ]_vars

\* a fetch failed once, was retried and succeeded: its list of one item is
\* the entry of its key, and the other key has no entry
C35_Witness ==
  /\ rpc = "returned"
  /\ newsFrom = "network"
  /\ Len(history) = 2
  /\ Len(result) = 1
  /\ HasEntry(files, getCacheKey(coinSymbols, hoursBack))
  /\ EntryOf(files, getCacheKey(coinSymbols, hoursBack)).data = result
  /\ Cardinality({p \in NewsPaths : files[p].exists}) = 1

-----------------------------------------------------------------------------
(* A cache hit makes no network attempt (checked under SpecNews) *)

\* C36: when the cache holds an unexpired entry for the request's key, the
\* news fetch makes zero network attempts and returns the cached payload
\* unchanged; the network is attempted only after a cache miss.  Stated
\* for a fetch that reached the lookup, of an enabled cache whose read meets
\* no storage failure.
C36_CacheHitNoNetwork ==
  /\ [][(GetStep /\ cacheEnabled /\ lastOp'.why # "error"
           /\ HasEntry(files, lastOp'.key)
           /\ Readable(EntryOf(files, lastOp'.key), now)) =>
          /\ lastOp'.key = getCacheKey(coinSymbols', hoursBack')
          /\ rpc' = "returned"
          /\ result' = EntryOf(files, lastOp'.key).data
          /\ history' = <<>>
          /\ files' = files
       ]_vars
  /\ [](rpc \in {"attempting", "sleeping"} =>
          /\ lastOp.op = "get"
          /\ lastOp.key = getCacheKey(coinSymbols, hoursBack)
          /\ lastOp.ret = Null)
  /\ []((rpc = "returned" /\ newsFrom = "cache") => history = <<>>)

\* the second fetch of the same key returned the list of one item the first
\* one stored, without an attempt
C36_Witness ==
  /\ rpc = "returned"
  /\ newsFrom = "cache"
  /\ history = <<>>
  /\ ops = 3
  /\ lastOp.op = "get"
  /\ lastOp.ret.hit
  /\ Len(result) = 1
  /\ EntryOf(files, lastOp.key).data = result

-----------------------------------------------------------------------------
(* The direction word of the price signal (checked under SpecCorrelate) *)

\* C37: in every record the direction word of the price-change signal
\* agrees with the direction field: "increased" exactly when direction is
\* "up", "decreased" exactly when it is "down", at 0 as well.
C37_SignalWordAgreesWithDirection ==
  correlations.pc = "returned" =>
    \A i \in 1..Len(correlations.value) :
      LET word == correlations.value[i].fallbackSignals[1].word
          direction == correlations.value[i].direction
      IN /\ word = "increased" <=> direction = "up"
         /\ word = "decreased" <=> direction = "down"

-----------------------------------------------------------------------------
(* Runs in flight (checked under SpecPipeline) *)

\* the run has been started and has neither completed nor failed
InFlight(run) == run.pc \notin {"done", "failed"}

\* C38: at most one pipeline run is in flight at any time: the trigger
\* never starts a run while an earlier one has not finished.
C38_OneRunInFlight ==
  Cardinality({r \in 1..Len(runs) : InFlight(runs[r])}) <= 1

-----------------------------------------------------------------------------
(* Expiry cleanup against a concurrent store (checked under SpecConc) *)

\* the reader read the whole old entry and found it expired
ReaderSawOldExpired ==
  /\ oldEntry # NoEntry
  /\ rbuf = Stringify(oldEntry)
  /\ Expired(oldEntry, now)

\* C34: when the getCached saw the old expired entry and the setCached
\* running concurrently stored the new one, the new entry is still
\* readable after both have finished (last writer wins).
C34_FreshEntrySurvivesCleanup ==
  (wpc = "done" /\ rdpc = "done" /\ ReaderSawOldExpired) =>
    /\ link # 0
    /\ inodes[link] = wtext

----------------------------------------------------------------------------
(* Properties of a concurrent set and get (checked under SpecConc) *)

\* C9: a getCached that runs while a setCached of the same key writes
\* returns absent, the complete previous payload, or the complete new
\* payload.
C9_NoHalfWrittenEntry ==
  rdpc = "done" =>
    \/ rret = Null
    \/ (oldEntry # NoEntry /\ rret = Hit(oldEntry.data))
    \/ rret = Hit(newData)

====
